---- MODULE Spec2Model ----
(***************************************************************************)
(* A model of the annotation web service (app.py) and of the per-annotator *)
(* parser processes it drives (worker.py).                                 *)
(*                                                                         *)
(* The Flask process serves requests on several threads.  WORKERS maps a   *)
(* username to a ProcessPoolExecutor(max_workers=1); each pool owns one    *)
(* worker process holding the globals of worker.py (PARSER, the lru_cache  *)
(* of getparses).  A request handler is a sequence of atomic steps, cut    *)
(* where it reads or writes state shared with the other threads (WORKERS,  *)
(* a pool's call queue, the database, the lru_cache of workerattr) and     *)
(* where it blocks on Future.result(): a step is what the thread does from *)
(* waking up to its next access of shared state, that access included.     *)
(***************************************************************************)
EXTENDS Integers, Sequences, FiniteSets, TLC

\* ------------------------------------------------------------- bounds
\* Requests made in a run.
MaxReq == 4
\* Requests made in a run of the short specification.
ShortReq == 3
\* Worker processes that die in a run.
MaxCrash == 1
\* Lines of the sentence file given to initpriorities.
MaxSents == 3
\* Ticks of the file system's clock (st_mtime values) in a run of startup.
MaxTime == 3
\* Requests made in a run of startup.
MaxStartReq == 3
MaxEdits == 1
MaxCands == 3
\* Candidates a decision tree is fitted to.
MaxFit == 4
\* Items of a constraint string.
MaxItems == 2
\* The longest sentence the worker parses (LIMIT), the derivations the engine
\* returns for a sentence, and the distinct trees they stand for.
LIMIT == 2
MaxDerivs == 4
MaxTrees == 3
\* Calls submitted to one engine.
MaxJobs == 3

Users == {"a", "b"}
Threads == {1, 2}
\* Sentences, by their original index (lineno); one parse-cache key each.
Sents == {0}
Trees == {"T1", "T2"}
Attrs == {"headrules"}
\* A request creates at most one pool.
Pools == 1..MaxReq

VARIABLES
  WORKERS,    \* app.WORKERS: username -> pool (0: no entry)
  npools,     \* pools created so far
  pools,      \* pool -> the executor, its call queue and its worker process
  db,         \* the entries table: username -> lineno -> tree ("none": no row)
  attrcache,  \* the lru_cache of workerattr: attr -> pool the value was read from
  th,         \* thread -> the request it is serving and where it is in it
  nreq,       \* requests made so far
  ncrash,     \* worker processes that died so far
  sentences,  \* initpriorities: the sentence file, a line being what it parses to
  queue,      \* initpriorities: the list built so far
  rankings,   \* the rankings file: <<>> until written, then <<queue>>
  now,        \* startup: the file system's clock
  sentmtime,  \* startup: st_mtime of the sentence file
  rankmtime,  \* startup: st_mtime of the rankings file (0: no such file)
  QUEUE,      \* app.QUEUE: 0 for None, else the rankings file loaded (by its mtime)
  got,        \* startup: initapp has run to its end
  answer,     \* startup: how the last request ended
  nstart,     \* startup: requests made so far
  senttok,    \* editing: the tokens of the sentence being annotated
  treestr,    \* editing: the tree in the annotator's form
  result,     \* editing: the view last requested and how it ended
  nedits,     \* editing: requests for an editing view made so far
  ranked,     \* decision tree: the candidate parses, best first
  dectree,    \* decision tree: what decisiontree returned
  nbest,      \* questions: the candidate parses with their probabilities
  questions,  \* questions: the decision tree fitted, by its weighted depth
  reqstr,     \* constraints: the string given, as its items
  reqkey,     \* constraints: what parseconstraints returned for it
  job,        \* parsing: the sentence, and the parse trees the engine has for it
  kept,       \* parsing: what applythreshold returned for the engine's list
  reply,      \* parsing: what getparses returned
  page,       \* parsing: how the parse view ended
  engines,    \* engines: each annotator's pool, its calls waiting, running, started
  stored,     \* accepting: what accept stored of the tree in the form
  actions     \* re-attaching: session['actions'][REATTACH]

svars == <<WORKERS, npools, pools, db, attrcache, th, nreq, ncrash>>
startvars == <<now, sentmtime, rankmtime, QUEUE, got, answer, nstart>>
\* What the web service leaves alone.
editvars == <<senttok, treestr, result, nedits>>
dtvars == <<ranked, dectree>>
gvars == <<job, kept, reply, page>>
yvars == <<engines, stored, actions>>
xvars == <<nbest, questions, reqstr, reqkey, gvars, yvars>>
pvars == <<sentences, queue, rankings, startvars, editvars, dtvars, xvars>>
vars == <<svars, pvars>>

\* ------------------------------------------------------------- values
NoFut == [st |-> "none", p |-> 0, ver |-> 0, aug |-> 0]
Pending == [st |-> "pending", p |-> 0, ver |-> 0, aug |-> 0]
Ok(p, ver, aug) == [st |-> "ok", p |-> p, ver |-> ver, aug |-> aug]
Exc(name) == [st |-> name, p |-> 0, ver |-> 0, aug |-> 0]

EmptyCache == [k \in Sents |-> -1]

NoPool ==
  [owner |-> "-", st |-> "none", shut |-> FALSE, queue |-> <<>>,
   loaded |-> FALSE, trained |-> {}, naug |-> 0, cache |-> EmptyCache,
   nsub |-> 0]

\* ProcessPoolExecutor(max_workers=1): no worker state yet (PARSER = None).
NewPool(u) == [NoPool EXCEPT !.owner = u, !.st = "up"]

Job(kind, arg, by, aug) == [kind |-> kind, arg |-> arg, by |-> by, aug |-> aug]

IdleThread ==
  [pc |-> "idle", user |-> "-", op |-> "-", sent |-> 0, tree |-> "-",
   h |-> 0, fut |-> NoFut, ann |-> {}, resp |-> "none", val |-> 0]

InitServer ==
  /\ WORKERS = [u \in Users |-> 0]
  /\ npools = 0
  /\ pools = [p \in Pools |-> NoPool]
  /\ db = [u \in Users |-> [s \in Sents |-> "none"]]
  /\ attrcache = [a \in Attrs |-> 0]
  /\ th = [t \in Threads |-> IdleThread]
  /\ nreq = 0
  /\ ncrash = 0

\* Startup is not looked at.
\* No tree is being edited.
EditIdle ==
  /\ senttok = <<>>
  /\ treestr = [ok |-> FALSE, tree |-> [label |-> <<>>, tok |-> 0, kids |-> <<>>],
                words |-> <<>>]
  /\ result = [op |-> "none", status |-> "none", error |-> "none"]
  /\ nedits = 0

\* No sentence is being parsed.
NoResp == [called |-> FALSE, parsed |-> FALSE, senttok |-> 0, parsetrees |-> <<>>,
           messages |-> "", elapsed |-> ""]
GIdle ==
  /\ job = [ntok |-> 0, parsetrees |-> <<>>]
  /\ kept = [called |-> FALSE, parsetrees |-> <<>>]
  /\ reply = NoResp
  /\ page = [status |-> "none", result |-> "", msg |-> -1]

\* No engine is watched and nothing is accepted.
NoEngine == [up |-> FALSE, queue |-> <<>>, running |-> {}, started |-> <<>>, nsub |-> 0]
NotStored == [status |-> "none", tree |-> <<>>, sent |-> <<>>, augment |-> FALSE]
YIdle ==
  /\ engines = [u \in Users |-> NoEngine]
  /\ stored = NotStored
  /\ actions = 0

\* Nothing else is going on.
XIdle ==
  /\ nbest = <<>>
  /\ questions = -1
  /\ reqstr = <<>>
  /\ reqkey = [parsed |-> FALSE, key |-> <<>>]
  /\ GIdle
  /\ YIdle

\* No decision tree is being built.
DecIdle ==
  /\ ranked = <<>>
  /\ dectree = [called |-> FALSE, built |-> FALSE, leaves |-> <<>>]

StartIdle ==
  /\ now = 0
  /\ sentmtime = 0
  /\ rankmtime = 0
  /\ QUEUE = 0
  /\ got = FALSE
  /\ answer = "none"
  /\ nstart = 0

\* The web service; initpriorities is not run.
Init ==
  /\ InitServer
  /\ sentences = <<>>
  /\ queue = <<>>
  /\ rankings = <<>>
  /\ StartIdle
  /\ EditIdle
  /\ DecIdle
  /\ XIdle

\* ------------------------------------------------------------- the worker process
\* worker.getparses under functools.lru_cache: a hit returns the cached
\* result, a miss parses with the grammar as trained so far and caches it.
GetparsesVer(w, key) == IF w.cache[key] >= 0 THEN w.cache[key] ELSE w.naug

GetparsesCache(w, key) ==
  IF w.cache[key] >= 0 THEN w.cache ELSE [w.cache EXCEPT ![key] = w.naug]

\* An augment that leaves the lru_cache of getparses as it is.
AugmentKeepCache(w, items) ==
  [w EXCEPT !.trained = @ \cup items, !.naug = @ + 1]

\* worker.augment: PARSER.augmentgrammar(trees, sents); getparses.cache_clear()
Augment(w, items) ==
  [w EXCEPT !.trained = @ \cup items, !.naug = @ + 1, !.cache = EmptyCache]

\* The worker's state after running job j.
RunJob(w, j) ==
  CASE j.kind = "loadgrammar" -> [w EXCEPT !.loaded = TRUE]
    [] j.kind = "getparses" -> [w EXCEPT !.cache = GetparsesCache(w, j.arg)]
    [] j.kind = "augment" -> Augment(w, j.arg)
    [] OTHER -> w

\* What the job's future is set to.
JobResult(p, w, j) ==
  CASE j.kind = "getparses" -> Ok(p, GetparsesVer(w, j.arg), j.aug)
    [] j.kind = "getprop" ->
         IF w.loaded THEN Ok(p, 0, 0) ELSE Exc("AttributeError")
    [] OTHER -> Ok(p, 0, 0)

\* The next call of the queue (max_workers=1: one at a time, in order).
NextJob(q) == 1

Deliver(t, r) == [th EXCEPT ![t].fut = r]

\* The worker process takes a call off the queue, runs it and sets its future.
Execute(p) ==
  /\ pools[p].st = "up"
  /\ pools[p].queue # <<>>
  /\ LET q == pools[p].queue
         i == NextJob(q)
         j == q[i]
         w == RunJob(pools[p], j)
     IN /\ pools' = [pools EXCEPT ![p] =
                       [w EXCEPT !.queue = SubSeq(q, 1, i - 1) \o SubSeq(q, i + 1, Len(q))]]
        /\ th' = IF j.by # 0 THEN Deliver(j.by, JobResult(p, pools[p], j)) ELSE th
  /\ UNCHANGED <<WORKERS, npools, db, attrcache, nreq, ncrash, pvars>>

\* The worker process dies (killed, out of memory, a crash in the parser):
\* its globals are lost with it.
Crash(p) ==
  /\ pools[p].st = "up"
  /\ ncrash < MaxCrash
  /\ ncrash' = ncrash + 1
  /\ pools' = [pools EXCEPT ![p] =
       [@ EXCEPT !.st = "dead", !.loaded = FALSE, !.trained = {},
                 !.naug = 0, !.cache = EmptyCache]]
  /\ UNCHANGED <<WORKERS, npools, db, attrcache, th, nreq, pvars>>

\* The executor's manager thread notices the dead worker: the pool is marked
\* broken and every pending future fails with BrokenProcessPool.
Detect(p) ==
  /\ pools[p].st = "dead"
  /\ pools' = [pools EXCEPT ![p] = [@ EXCEPT !.st = "broken", !.queue = <<>>]]
  /\ th' = [t \in Threads |->
       IF \E i \in 1..Len(pools[p].queue) : pools[p].queue[i].by = t
       THEN [th[t] EXCEPT !.fut = Exc("BrokenProcessPool")]
       ELSE th[t]]
  /\ UNCHANGED <<WORKERS, npools, db, attrcache, nreq, ncrash, pvars>>

\* After shutdown(wait=False) the pending calls still run; then the worker exits.
Exit(p) ==
  /\ pools[p].st = "up"
  /\ pools[p].shut
  /\ pools[p].queue = <<>>
  /\ pools' = [pools EXCEPT ![p] =
       [@ EXCEPT !.st = "closed", !.loaded = FALSE, !.trained = {},
                 !.naug = 0, !.cache = EmptyCache]]
  /\ UNCHANGED <<WORKERS, npools, db, attrcache, th, nreq, ncrash, pvars>>

\* ------------------------------------------------------------- submitting a call
\* executor.submit: raises on a pool already marked broken or shut down
\* ("KeyError": the lookup WORKERS[username] found no entry).
SubmitOutcome(p) ==
  IF p = 0 THEN "KeyError"
  ELSE IF pools[p].st = "broken" THEN "BrokenProcessPool"
  ELSE IF pools[p].shut THEN "RuntimeError"
  ELSE "ok"

\* The call is appended to the pool's queue; an augment call is counted.
Enqueue(p, kind, arg, by) ==
  [pools EXCEPT ![p] =
     [@ EXCEPT !.queue = Append(@, Job(kind, arg, by, pools[p].nsub)),
               !.nsub = IF kind = "augment" THEN @ + 1 ELSE @]]

\* The request ends: the response (or the exception that ended it) is kept.
Done(t, resp, val) ==
  [th EXCEPT ![t] =
     [IdleThread EXCEPT !.user = th[t].user, !.op = th[t].op,
                        !.resp = resp, !.val = val]]

\* ------------------------------------------------------------- requests
\* A request arrives with a session cookie naming a logged-in user (one of
\* users), while fewer than k requests have been made.
Arrives(t, k, u, op) ==
  /\ th[t].pc = "idle"
  /\ nreq < k
  /\ nreq' = nreq + 1

Serving(t, u, op, s, tr, pc) ==
  [th EXCEPT ![t] =
     [IdleThread EXCEPT !.user = u, !.op = op, !.sent = s, !.tree = tr, !.pc = pc]]

\* loginrequired: a user without an entry in WORKERS is sent to dologin.
LoginRequired(t, u, op, s, tr, pc) ==
  IF WORKERS[u] = 0
  THEN [th EXCEPT ![t] =
          [IdleThread EXCEPT !.user = u, !.op = op, !.resp = "redirect_dologin"]]
  ELSE Serving(t, u, op, s, tr, pc)

\* WORKERS[username].submit(worker.getparses, sent, require, block)
SubmitParse(t, next) ==
  LET p == WORKERS[th[t].user]
      o == SubmitOutcome(p)
  IN IF o = "ok"
     THEN /\ pools' = Enqueue(p, "getparses", th[t].sent, t)
          /\ th' = [th EXCEPT ![t].pc = next, ![t].fut = Pending]
     ELSE /\ th' = Done(t, o, 0)
          /\ UNCHANGED pools

\* ------------------------------------------------------------- parse
ParseBegin(t, k, users) ==
  /\ \E u \in users, s \in Sents :
       /\ Arrives(t, k, u, "parse")
       /\ th' = LoginRequired(t, u, "parse", s, "-", "pa_submit")
  /\ UNCHANGED <<WORKERS, npools, pools, db, attrcache, ncrash, pvars>>

ParseSubmit(t) ==
  /\ th[t].pc = "pa_submit"
  /\ SubmitParse(t, "pa_wait")
  /\ UNCHANGED <<WORKERS, npools, db, attrcache, nreq, ncrash, pvars>>

\* workerattr under lru_cache(maxsize=None): the cache key is the attribute
\* name alone.  A hit returns the cached value; a miss submits worker.getprop
\* to WORKERS[session['username']].
WorkerattrCall(t) ==
  LET c == attrcache["headrules"]
      p == WORKERS[th[t].user]
      o == SubmitOutcome(p)
  IN IF c # 0
     THEN /\ th' = Done(t, "ok", c)
          /\ UNCHANGED pools
     ELSE IF o = "ok"
     THEN /\ pools' = Enqueue(p, "getprop", "headrules", t)
          /\ th' = [th EXCEPT ![t].pc = "wa_wait", ![t].fut = Pending]
     ELSE /\ th' = Done(t, o, 0)
          /\ UNCHANGED pools

\* .result() of getparses returns or raises; with parse trees the view goes on
\* to workerattr('headrules'), without any it answers "no parse!".
ParseResult(t) ==
  /\ th[t].pc = "pa_wait"
  /\ th[t].fut.st \notin {"none", "pending"}
  /\ \/ /\ th[t].fut.st # "ok"
        /\ th' = Done(t, th[t].fut.st, 0)
        /\ UNCHANGED pools
     \/ /\ th[t].fut.st = "ok"
        /\ \/ WorkerattrCall(t)
           \/ /\ th' = Done(t, "ok", 0)
              /\ UNCHANGED pools
  /\ UNCHANGED <<WORKERS, npools, db, attrcache, nreq, ncrash, pvars>>

\* .result() of getprop: the value read from the worker is cached and
\* returned; an exception is not cached.
WorkerattrResult(t) ==
  /\ th[t].pc = "wa_wait"
  /\ th[t].fut.st \notin {"none", "pending"}
  /\ IF th[t].fut.st = "ok"
     THEN /\ attrcache' = [attrcache EXCEPT !["headrules"] = th[t].fut.p]
          /\ th' = Done(t, "ok", th[t].fut.p)
     ELSE /\ th' = Done(t, th[t].fut.st, 0)
          /\ UNCHANGED attrcache
  /\ UNCHANGED <<WORKERS, npools, pools, db, nreq, ncrash, pvars>>

\* ------------------------------------------------------------- the database
\* 'insert or replace into entries': one row per (sentno, username).
InsertOrReplace(d, u, s, tree) == [d EXCEPT ![u][s] = tree]

\* addentry(sentno, tree, actions): the row is stored under session['username'].
Addentry(d, u, s, tree) == InsertOrReplace(d, u, s, tree)

\* readannotations(username): sentno -> tree of that user's rows.
Readannotations(d, u) == {<<s, d[u][s]>> : s \in {x \in Sents : d[u][x] # "none"}}

\* readannotations() without a username selects the rows of every user;
\* OrderedDict(entries) keeps one tree per sentno, the row the query returns
\* last (the order of the rows of one sentno is not specified).
ReadannotationsAll(d) ==
  LET rows(s) == {d[u][s] : u \in {x \in Users : d[x][s] # "none"}}
      done == {s \in Sents : rows(s) # {}}
  IN {{<<s, f[s]>> : s \in done} :
        f \in {g \in [done -> Trees] : \A s \in done : g[s] \in rows(s)}}

\* ------------------------------------------------------------- accept
\* An accept carries a tree (edited by hand), or the rank n of a parse that is
\* fetched from the worker first (byn).
AcceptBegin(t, k, users) ==
  /\ \E u \in users, s \in Sents, tr \in Trees, byn \in BOOLEAN :
       /\ Arrives(t, k, u, "accept")
       /\ th' = LoginRequired(t, u, "accept", s, tr,
                              IF byn THEN "ac_parse" ELSE "ac_store")
  /\ UNCHANGED <<WORKERS, npools, pools, db, attrcache, ncrash, pvars>>

AcceptParse(t) ==
  /\ th[t].pc = "ac_parse"
  /\ SubmitParse(t, "ac_wait")
  /\ UNCHANGED <<WORKERS, npools, db, attrcache, nreq, ncrash, pvars>>

\* block = writetree(tree, ...); addentry(lineno, block, actions), once the
\* tree is at hand (.result() of getparses may raise instead).
AcceptStore(t) ==
  /\ \/ th[t].pc = "ac_store"
     \/ th[t].pc = "ac_wait" /\ th[t].fut.st \notin {"none", "pending"}
  /\ IF th[t].pc = "ac_wait" /\ th[t].fut.st # "ok"
     THEN /\ th' = Done(t, th[t].fut.st, 0)
          /\ UNCHANGED db
     ELSE /\ db' = Addentry(db, th[t].user, th[t].sent, th[t].tree)
          /\ th' = [th EXCEPT ![t].pc = "ac_augment", ![t].fut = NoFut]
  /\ UNCHANGED <<WORKERS, npools, pools, attrcache, nreq, ncrash, pvars>>

\* An augment call that goes to the pool created last, whoever owns it.
AugmentTargetLatest(u) == npools

\* The pool the augment call of accept goes to.
AugmentTarget(u) == WORKERS[u]

\* WORKERS[username].submit(worker.augment, [tree], [senttok]): the future is
\* dropped, the view answers with the redirect to the next sentence.
AcceptAugment(t) ==
  /\ th[t].pc = "ac_augment"
  /\ LET p == AugmentTarget(th[t].user)
         o == SubmitOutcome(p)
     IN IF o = "ok"
        THEN /\ pools' = Enqueue(p, "augment", {<<th[t].sent, th[t].tree>>}, 0)
             /\ th' = Done(t, "stored", 0)
        ELSE /\ th' = Done(t, o, 0)
             /\ UNCHANGED pools
  /\ UNCHANGED <<WORKERS, npools, db, attrcache, nreq, ncrash, pvars>>

\* ------------------------------------------------------------- logout
\* "if 'username' in session and session['username'] in WORKERS"
LogoutBegin(t, k, users) ==
  /\ \E u \in users :
       /\ Arrives(t, k, u, "logout")
       /\ th' = IF WORKERS[u] # 0
                THEN Serving(t, u, "logout", 0, "-", "lo_pop")
                ELSE [th EXCEPT ![t] =
                        [IdleThread EXCEPT !.user = u, !.op = "logout", !.resp = "ok"]]
  /\ UNCHANGED <<WORKERS, npools, pools, db, attrcache, ncrash, pvars>>

\* pool = WORKERS.pop(session['username']); pool.shutdown(wait=False)
LogoutPop(t) ==
  /\ th[t].pc = "lo_pop"
  /\ LET p == WORKERS[th[t].user]
     IN IF p = 0
        THEN /\ th' = Done(t, "KeyError", 0)
             /\ UNCHANGED <<WORKERS, pools>>
        ELSE /\ WORKERS' = [WORKERS EXCEPT ![th[t].user] = 0]
             /\ pools' = [pools EXCEPT ![p].shut = TRUE]
             /\ th' = Done(t, "ok", 0)
  /\ UNCHANGED <<npools, db, attrcache, nreq, ncrash, pvars>>

\* ------------------------------------------------------------- dologin
\* pool = ProcessPoolExecutor(max_workers=1); pool.submit(worker.loadgrammar, ...)
CreatePool(t, u) ==
  LET p == npools + 1
  IN /\ npools' = p
     /\ pools' = [pools EXCEPT ![p] =
          [NewPool(u) EXCEPT !.queue = <<Job("loadgrammar", 0, t, 0)>>]]
     /\ th' = [th EXCEPT ![t] =
          [IdleThread EXCEPT !.user = u, !.op = "dologin", !.pc = "dl_load",
                             !.h = p, !.fut = Pending]]

\* generate(): "if username in WORKERS", else a new pool is made.
DologinBegin(t, k, users) ==
  /\ \E u \in users :
       /\ Arrives(t, k, u, "dologin")
       /\ IF WORKERS[u] # 0
          THEN /\ th' = Serving(t, u, "dologin", 0, "-", "dl_ping")
               /\ UNCHANGED <<npools, pools>>
          ELSE CreatePool(t, u)
  /\ UNCHANGED <<WORKERS, db, attrcache, ncrash, pvars>>

\* WORKERS[username].submit(worker.getprop, 'headrules') inside the try:
\* BrokenProcessPool is caught and falls through to a new pool.
DologinPing(t) ==
  /\ th[t].pc = "dl_ping"
  /\ LET p == WORKERS[th[t].user]
         o == SubmitOutcome(p)
     IN CASE o = "ok" ->
               /\ pools' = Enqueue(p, "getprop", "headrules", t)
               /\ th' = [th EXCEPT ![t].pc = "dl_pingwait", ![t].fut = Pending]
               /\ UNCHANGED npools
          [] o = "BrokenProcessPool" -> CreatePool(t, th[t].user)
          [] OTHER ->
               /\ th' = Done(t, o, 0)
               /\ UNCHANGED <<npools, pools>>
  /\ UNCHANGED <<WORKERS, db, attrcache, nreq, ncrash, pvars>>

\* .result() of the health check: the pool answers and the user is redirected,
\* or it is broken and a new one is made.
DologinPinged(t) ==
  /\ th[t].pc = "dl_pingwait"
  /\ th[t].fut.st \notin {"none", "pending"}
  /\ CASE th[t].fut.st = "ok" ->
            /\ th' = Done(t, "ok", 0)
            /\ UNCHANGED <<npools, pools>>
       [] th[t].fut.st = "BrokenProcessPool" -> CreatePool(t, th[t].user)
       [] OTHER ->
            /\ th' = Done(t, th[t].fut.st, 0)
            /\ UNCHANGED <<npools, pools>>
  /\ UNCHANGED <<WORKERS, db, attrcache, nreq, ncrash, pvars>>

\* The annotations the new worker is trained on: annotations = readannotations()
TrainingAnnotations(d, u) == ReadannotationsAll(d)

\* WORKERS[username] = pool
Register(t) == [WORKERS EXCEPT ![th[t].user] = th[t].h]

\* future.result() of loadgrammar; then the stored annotations are read.
\* Without any the pool is registered at once, else headrules are fetched.
DologinLoaded(t) ==
  /\ th[t].pc = "dl_load"
  /\ th[t].fut.st \notin {"none", "pending"}
  /\ IF th[t].fut.st # "ok"
     THEN /\ th' = Done(t, th[t].fut.st, 0)
          /\ UNCHANGED <<WORKERS, pools>>
     ELSE \E ann \in TrainingAnnotations(db, th[t].user) :
            IF ann = {}
            THEN /\ WORKERS' = Register(t)
                 /\ th' = Done(t, "ok", 0)
                 /\ UNCHANGED pools
            ELSE IF SubmitOutcome(th[t].h) = "ok"
            THEN /\ pools' = Enqueue(th[t].h, "getprop", "headrules", t)
                 /\ th' = [th EXCEPT ![t].pc = "dl_headrules", ![t].fut = Pending,
                                     ![t].ann = ann]
                 /\ UNCHANGED WORKERS
            ELSE /\ th' = Done(t, SubmitOutcome(th[t].h), 0)
                 /\ UNCHANGED <<WORKERS, pools>>
  /\ UNCHANGED <<npools, db, attrcache, nreq, ncrash, pvars>>

\* headrules = ....result(); pool.submit(worker.augment, trees, sents)
DologinHeadrules(t) ==
  /\ th[t].pc = "dl_headrules"
  /\ th[t].fut.st \notin {"none", "pending"}
  /\ IF th[t].fut.st = "ok" /\ SubmitOutcome(th[t].h) = "ok"
     THEN /\ pools' = Enqueue(th[t].h, "augment", th[t].ann, t)
          /\ th' = [th EXCEPT ![t].pc = "dl_train", ![t].fut = Pending]
     ELSE /\ th' = Done(t, IF th[t].fut.st # "ok" THEN th[t].fut.st
                           ELSE SubmitOutcome(th[t].h), 0)
          /\ UNCHANGED pools
  /\ UNCHANGED <<WORKERS, npools, db, attrcache, nreq, ncrash, pvars>>

\* future.result() of augment; WORKERS[username] = pool
DologinTrained(t) ==
  /\ th[t].pc = "dl_train"
  /\ th[t].fut.st \notin {"none", "pending"}
  /\ IF th[t].fut.st = "ok"
     THEN /\ WORKERS' = Register(t)
          /\ th' = Done(t, "ok", 0)
     ELSE /\ th' = Done(t, th[t].fut.st, 0)
          /\ UNCHANGED WORKERS
  /\ UNCHANGED <<npools, pools, db, attrcache, nreq, ncrash, pvars>>

\* ------------------------------------------------------------- the system
Request(t, k, users) ==
  \/ ParseBegin(t, k, users)
  \/ AcceptBegin(t, k, users)
  \/ LogoutBegin(t, k, users)
  \/ DologinBegin(t, k, users)

Step(t) ==
  \/ ParseSubmit(t)
  \/ ParseResult(t)
  \/ WorkerattrResult(t)
  \/ AcceptParse(t)
  \/ AcceptStore(t)
  \/ AcceptAugment(t)
  \/ LogoutPop(t)
  \/ DologinPing(t)
  \/ DologinPinged(t)
  \/ DologinLoaded(t)
  \/ DologinHeadrules(t)
  \/ DologinTrained(t)

Worker(p) ==
  \/ Execute(p)
  \/ Crash(p)
  \/ Detect(p)
  \/ Exit(p)

Next ==
  \/ \E t \in Threads : Request(t, MaxReq, Users) \/ Step(t)
  \/ \E p \in Pools : Worker(p)

Spec == Init /\ [][Next]_vars

\* The same system, with fewer requests.
NextShort ==
  \/ \E t \in Threads : Request(t, ShortReq, Users) \/ Step(t)
  \/ \E p \in Pools : Worker(p)

SpecShort == Init /\ [][NextShort]_vars

\* One annotator's requests.
NextOne ==
  \/ \E t \in Threads : Request(t, MaxReq, {"a"}) \/ Step(t)
  \/ \E p \in Pools : Worker(p)

SpecOne == Init /\ [][NextOne]_vars

\* ------------------------------------------------------------- initpriorities
\* What a line of the sentence file parses to: the probabilities of its parse
\* trees as integer weights (entropy normalises them), <<>> where getparses
\* returns no tree or raises ValueError.
ParseOutcomes ==
  {<<>>, <<1>>, <<1, 1>>, <<1, 1, 2>>, <<1, 1, 1, 1>>, <<0>>, <<0, 1>>}

SentenceFiles == UNION {[1..n -> ParseOutcomes] : n \in 0..MaxSents}

RECURSIVE Sum(_)
Sum(seq) == IF seq = <<>> THEN 0 ELSE Head(seq) + Sum(Tail(seq))

\* log(x, 2) of a power of two.
RECURSIVE Log2(_)
Log2(x) == IF x <= 1 THEN 0 ELSE 1 + Log2(x \div 2)

\* entropy raises ZeroDivisionError on a probability mass of zero and
\* ValueError on log(0, 2).
EntropyRaises(seq) ==
  seq # <<>> /\ (Sum(seq) = 0 \/ \E i \in 1..Len(seq) : seq[i] = 0)

\* entropy(seq), in eighths of a bit: -sum(p * log(p, 2)) with p = prob / probmass.
Entropy(seq) ==
  IF seq = <<>> THEN 0
  ELSE LET probmass == Sum(seq)
           term(i) == (8 * seq[i] * Log2(probmass \div seq[i])) \div probmass
       IN Sum([i \in 1..Len(seq) |-> term(i)])

\* The loop body: ent = 0; with parse trees ent = entropy(probs) unless that
\* raises; queue.append((n, ent, sent)).
QueueEntry(n, probs) ==
  [n |-> n,
   ent |-> IF probs # <<>> /\ ~EntropyRaises(probs) THEN Entropy(probs) ELSE 0]

InitPrio ==
  /\ InitServer
  /\ sentences \in SentenceFiles
  /\ queue = <<>>
  /\ rankings = <<>>
  /\ StartIdle
  /\ EditIdle
  /\ DecIdle
  /\ XIdle

\* One iteration of "for n, sent in enumerate(sentences)".
PrioStep ==
  /\ rankings = <<>>
  /\ Len(queue) < Len(sentences)
  /\ queue' = Append(queue, QueueEntry(Len(queue), sentences[Len(queue) + 1]))
  /\ UNCHANGED <<sentences, rankings, svars, startvars, editvars, dtvars, xvars>>

\* json.dump(queue, rankingfile)
PrioDump ==
  /\ rankings = <<>>
  /\ Len(queue) = Len(sentences)
  /\ rankings' = <<queue>>
  /\ UNCHANGED <<sentences, queue, svars, startvars, editvars, dtvars, xvars>>

NextPrio ==
  \/ PrioStep
  \/ PrioDump

SpecPrio == InitPrio /\ [][NextPrio]_vars

\* ------------------------------------------------------------- startup
\* The rankings file is newer than the sentence file.
RankingsNotOlder(r, s) == r >= s

\* os.stat(rankingfilename).st_mtime > os.stat(sentfilename).st_mtime
RankingsNewer(r, s) == r > s

\* os.path.exists(rankingfilename)
RankingsExist(r) == r # 0

\* initapp: QUEUE = json.load(rankingfile) when the rankings file exists and
\* is newer than the sentence file; else ValueError('no rankings for
\* sentences, or sentences have been modified ...') and QUEUE is left as it is.
Initapp ==
  IF RankingsExist(rankmtime) /\ RankingsNewer(rankmtime, sentmtime)
  THEN [QUEUE |-> rankmtime, raised |-> "none"]
  ELSE [QUEUE |-> QUEUE, raised |-> "ValueError"]

InitStart ==
  /\ InitServer
  /\ sentences = <<>>
  /\ queue = <<>>
  /\ rankings = <<>>
  /\ now = 1
  /\ sentmtime = 1
  /\ rankmtime = 0
  /\ QUEUE = 0
  /\ got = FALSE
  /\ answer = "none"
  /\ nstart = 0
  /\ EditIdle
  /\ DecIdle
  /\ XIdle

StartFrame == UNCHANGED <<svars, sentences, queue, rankings, editvars, dtvars, xvars>>

\* Time passes.
Tick ==
  /\ now < MaxTime
  /\ now' = now + 1
  /\ UNCHANGED <<sentmtime, rankmtime, QUEUE, got, answer, nstart>>
  /\ StartFrame

\* The sentence file is edited.
WriteSentences ==
  /\ sentmtime' = now
  /\ UNCHANGED <<now, rankmtime, QUEUE, got, answer, nstart>>
  /\ StartFrame

\* "flask initpriorities" writes the rankings file.
WriteRankings ==
  /\ rankmtime' = now
  /\ UNCHANGED <<now, sentmtime, QUEUE, got, answer, nstart>>
  /\ StartFrame

\* The rankings file is removed.
RemoveRankings ==
  /\ rankmtime # 0
  /\ rankmtime' = 0
  /\ UNCHANGED <<now, sentmtime, QUEUE, got, answer, nstart>>
  /\ StartFrame

\* A request arrives before initapp has run to its end
\* (app.before_first_request): initapp runs; when it raises, the request
\* fails and the next request runs it again.
FirstRequest ==
  /\ ~got
  /\ nstart < MaxStartReq
  /\ nstart' = nstart + 1
  /\ QUEUE' = Initapp.QUEUE
  /\ got' = (Initapp.raised = "none")
  /\ answer' = IF Initapp.raised = "none" THEN "served" ELSE Initapp.raised
  /\ UNCHANGED <<now, sentmtime, rankmtime>>
  /\ StartFrame

\* A later request: the view reads QUEUE[sentno - 1].
LaterRequest ==
  /\ got
  /\ nstart < MaxStartReq
  /\ nstart' = nstart + 1
  /\ answer' = IF QUEUE = 0 THEN "TypeError" ELSE "served"
  /\ UNCHANGED <<now, sentmtime, rankmtime, QUEUE, got>>
  /\ StartFrame

NextStart ==
  \/ Tick
  \/ WriteSentences
  \/ WriteRankings
  \/ RemoveRankings
  \/ FirstRequest
  \/ LaterRequest

SpecStart == InitStart /\ [][NextStart]_vars

\* ------------------------------------------------------------- trees
\* A Tree is a record: label (a string, as its sequence of characters) and
\* kids, each a Tree or a token index (a leaf).  tok is the index of a leaf
\* and -1 on a Tree.
Node(label, kids) == [label |-> label, tok |-> -1, kids |-> kids]
Leaf(i) == [label |-> <<>>, tok |-> i, kids |-> <<>>]

\* isinstance(child, int)
IsTok(c) == c.tok >= 0

RECURSIVE Concat(_)
Concat(seqs) == IF seqs = <<>> THEN <<>> ELSE Head(seqs) \o Concat(Tail(seqs))

\* tree.subtrees(): the Tree nodes, top down and left to right.
RECURSIVE Subtrees(_)
Subtrees(t) ==
  <<t>> \o Concat([i \in 1..Len(t.kids) |->
                     IF IsTok(t.kids[i]) THEN <<>> ELSE Subtrees(t.kids[i])])

\* tree.leaves(): the token indices, left to right.
RECURSIVE Leaves(_)
Leaves(t) ==
  IF IsTok(t) THEN <<t.tok>>
  ELSE Concat([i \in 1..Len(t.kids) |-> Leaves(t.kids[i])])

\* The positions of the Tree nodes, in the order of Subtrees; a position is the
\* sequence of child indices leading to the node.  DrawTree(tree).nodes[n] is
\* taken to be the node at the n-th position, nodes[0] being the root.
RECURSIVE Positions(_)
Positions(t) ==
  <<<<>>>> \o Concat([i \in 1..Len(t.kids) |->
     IF IsTok(t.kids[i]) THEN <<>>
     ELSE LET sub == Positions(t.kids[i])
          IN [k \in 1..Len(sub) |-> <<i>> \o sub[k]]])

RECURSIVE At(_, _)
At(t, pos) == IF pos = <<>> THEN t ELSE At(t.kids[Head(pos)], Tail(pos))

RECURSIVE Put(_, _, _)
Put(t, pos, n) ==
  IF pos = <<>> THEN n
  ELSE [t EXCEPT !.kids[Head(pos)] = Put(t.kids[Head(pos)], Tail(pos), n)]

Front(seq) == SubSeq(seq, 1, Len(seq) - 1)
Last(seq) == seq[Len(seq)]
IsPrefix(p, q) == Len(p) <= Len(q) /\ SubSeq(q, 1, Len(p)) = p
SetMin(S) == CHOOSE x \in S : \A y \in S : x <= y
SetMax(S) == CHOOSE x \in S : \A y \in S : x >= y
Range(seq) == {seq[i] : i \in 1..Len(seq)}

\* ------------------------------------------------------------- labels
\* LABELRE = ^([^-/\s]+)(-[^/\s]+)?(/\S+)?$ applied to a label: whether it
\* matches, and the three groups (an absent group is <<>>).
FirstOf(l, chars, from) ==
  LET I == {i \in from..Len(l) : l[i] \in chars}
  IN IF I = {} THEN Len(l) + 1 ELSE SetMin(I)

NoMatch == [ok |-> FALSE, cat |-> <<>>, func |-> <<>>, morph |-> <<>>]

MorphGroup(l, from, cat, func) ==
  LET morph == SubSeq(l, from, Len(l))
  IN IF Len(morph) >= 2 /\ " " \notin Range(morph)
     THEN [ok |-> TRUE, cat |-> cat, func |-> func, morph |-> morph]
     ELSE NoMatch

LabelMatch(l) ==
  LET stop1 == FirstOf(l, {"-", "/", " "}, 1)
      cat == SubSeq(l, 1, stop1 - 1)
      stop2 == FirstOf(l, {"/", " "}, stop1 + 1)
      func == SubSeq(l, stop1, stop2 - 1)
  IN IF cat = <<>> THEN NoMatch
     ELSE IF stop1 > Len(l)
     THEN [ok |-> TRUE, cat |-> cat, func |-> <<>>, morph |-> <<>>]
     ELSE IF l[stop1] = "/" THEN MorphGroup(l, stop1, cat, <<>>)
     ELSE IF l[stop1] = " " \/ Len(func) < 2 THEN NoMatch
     ELSE IF stop2 > Len(l)
     THEN [ok |-> TRUE, cat |-> cat, func |-> func, morph |-> <<>>]
     ELSE IF l[stop2] = "/" THEN MorphGroup(l, stop2, cat, func)
     ELSE NoMatch

\* The label sets of the grammar, as workerattr returns them, and
\* app.config['FUNCTIONTAGWHITELIST'].
Poslabels == {<<"N">>, <<"V">>}
Phrasallabels == {<<"S">>, <<"P">>}
Functiontags == {<<"H">>}
FUNCTIONTAGWHITELIST == {<<"W">>}

\* ------------------------------------------------------------- tree strings
\* A tree in discbracket format: its leaves are written "index=word".  A
\* string that is no bracketing has ok = FALSE; of one that is, tree is the
\* Tree and words maps the indices of its leaves to the words written there.
Garbage == [ok |-> FALSE, tree |-> Leaf(0), words |-> <<>>]

\* writediscbrackettree(tree, senttok)
Writediscbrackettree(tree, toks) ==
  [ok |-> TRUE, tree |-> tree,
   words |-> [i \in Range(Leaves(tree)) |-> toks[i + 1]]]

\* discbrackettree(treestr): the Tree and the sentence read off the leaves,
\* None where an index below the largest has no leaf; it raises on a string
\* that is no bracketing or has no leaf.
Discbrackettree(str) ==
  LET D == DOMAIN str.words
  IN IF ~str.ok \/ D = {}
     THEN [raised |-> TRUE, tree |-> str.tree, sent |-> <<>>]
     ELSE [raised |-> FALSE, tree |-> str.tree,
           sent |-> [n \in 1..(SetMax(D) + 1) |->
                       IF (n - 1) \in D THEN str.words[n - 1] ELSE "None"]]

\* ------------------------------------------------------------- validate
\* The check of the function tag (group 2 without its dash).
BadFunction(m) ==
  /\ m.func # <<>>
  /\ Tail(m.func) \notin Functiontags
  /\ Tail(m.func) \notin FUNCTIONTAGWHITELIST

\* The body of the loop over tree.subtrees(), without the check that a POS
\* tag has one child only.
NodeErrorAnyArity(node) ==
  LET m == LabelMatch(node.label)
  IN IF ~m.ok THEN "malformed label"
     ELSE IF Len(node.kids) = 0 THEN "no children"
     ELSE IF IsTok(node.kids[1])
     THEN IF m.cat \notin Poslabels THEN "invalid POS tag"
          ELSE IF BadFunction(m) THEN "invalid function tag"
          ELSE "none"
     ELSE IF \E i \in 1..Len(node.kids) : IsTok(node.kids[i])
     THEN "token as child"
     ELSE IF m.cat \notin Phrasallabels THEN "invalid constituent label"
     ELSE IF BadFunction(m) THEN "invalid function tag"
     ELSE "none"

\* The body of the loop over tree.subtrees(): the ValueError raised for the
\* node, "none" without one.
NodeError(node) ==
  LET m == LabelMatch(node.label)
  IN IF ~m.ok THEN "malformed label"
     ELSE IF Len(node.kids) = 0 THEN "no children"
     ELSE IF IsTok(node.kids[1])
     THEN IF m.cat \notin Poslabels THEN "invalid POS tag"
          ELSE IF BadFunction(m) THEN "invalid function tag"
          ELSE IF Len(node.kids) # 1 THEN "POS tag with more than one child"
          ELSE "none"
     ELSE IF \E i \in 1..Len(node.kids) : IsTok(node.kids[i])
     THEN "token as child"
     ELSE IF m.cat \notin Phrasallabels THEN "invalid constituent label"
     ELSE IF BadFunction(m) THEN "invalid function tag"
     ELSE "none"

\* The error of the first node that has one.
RECURSIVE FirstError(_)
FirstError(nodes) ==
  IF nodes = <<>> THEN "none"
  ELSE IF NodeError(Head(nodes)) # "none" THEN NodeError(Head(nodes))
  ELSE FirstError(Tail(nodes))

\* A validate that compares the lengths of the sentences only.
ValidateSentenceLength(str, toks) ==
  LET r == Discbrackettree(str)
  IN IF r.raised THEN "cannot parse tree bracketing"
     ELSE IF Len(toks) # Len(r.sent) THEN "sentence was modified"
     ELSE FirstError(Subtrees(r.tree))

\* validate(treestr, senttok): the ValueError it raises, "none" when it
\* returns the tree.
Validate(str, toks) ==
  LET r == Discbrackettree(str)
  IN IF r.raised THEN "cannot parse tree bracketing"
     ELSE IF toks # r.sent THEN "sentence was modified"
     ELSE FirstError(Subtrees(r.tree))

\* ------------------------------------------------------------- canonicalize
\* The key children are ordered by: the smallest token index below them.
MinLeaf(t) == IF Leaves(t) = <<>> THEN -1 ELSE SetMin(Range(Leaves(t)))

\* list.sort is stable: x goes after the items with a key up to its own.
RECURSIVE Insert(_, _)
Insert(seq, x) ==
  IF seq = <<>> THEN <<x>>
  ELSE IF MinLeaf(Last(seq)) <= MinLeaf(x) THEN Append(seq, x)
  ELSE Append(Insert(Front(seq), x), Last(seq))

RECURSIVE Sorted(_)
Sorted(seq) == IF seq = <<>> THEN <<>> ELSE Insert(Sorted(Front(seq)), Last(seq))

\* canonicalize(tree): the children of every node in order of their leaves.
RECURSIVE Canonicalize(_)
Canonicalize(t) ==
  IF IsTok(t) THEN t
  ELSE [t EXCEPT !.kids = Sorted([i \in 1..Len(t.kids) |-> Canonicalize(t.kids[i])])]

\* ------------------------------------------------------------- edit views
\* What a view computes from the validated tree: status "tree" with the tree to
\* write back and the error shown with it ("" for none), or "exception" with
\* the exception that leaves the view.
Edited(tree) == [status |-> "tree", error |-> "", tree |-> tree]
Refused(tree, error) == [status |-> "tree", error |-> error, tree |-> tree]
Raises(tree, exc) == [status |-> "exception", error |-> exc, tree |-> tree]

\* dt.nodes[nodeid] exists
HasNode(tree, nodeid) == nodeid \in 0..(Len(Positions(tree)) - 1)
PosOf(tree, nodeid) == Positions(tree)[nodeid + 1]

\* The label put together from the request and the groups of the old label.
NewLabelOf(m, kind, label) ==
  CASE kind = "label" -> label \o m.func \o m.morph
    [] kind = "function" ->
         IF label = <<>> THEN m.cat \o m.morph
         ELSE m.cat \o <<"-">> \o label \o m.morph
    [] kind = "morph" ->
         IF label = <<>> THEN m.cat \o m.func
         ELSE m.cat \o m.func \o <<"/">> \o label

\* newlabel, after validate: kind is the argument the request carries
\* ("none": neither label, function nor morph).
Newlabel(tree, nodeid, kind, label) ==
  IF ~HasNode(tree, nodeid) THEN Raises(tree, "KeyError")
  ELSE IF kind = "none" THEN Raises(tree, "ValueError")
  ELSE LET pos == PosOf(tree, nodeid)
           x == At(tree, pos)
           m == LabelMatch(x.label)
       IN Edited(Put(tree, pos, [x EXCEPT !.label = NewLabelOf(m, kind, label)]))

\* y.index(x): the first child equal to x.
IndexOf(kids, x) == SetMin({i \in 1..Len(kids) : kids[i] = x})

\* y[i:i + 1] = children
SpliceIn(kids, i, children) ==
  SubSeq(kids, 1, i - 1) \o children \o SubSeq(kids, i + 1, Len(kids))

\* list.remove(x): without the first child equal to x.
Remove(kids, x) == SpliceIn(kids, IndexOf(kids, x), <<>>)

\* reattach with newparent = deletenode, after validate, accepting any node
\* that is not the root.
DeletenodeAnyNode(tree, nodeid) ==
  IF ~HasNode(tree, nodeid) THEN Raises(tree, "KeyError")
  ELSE LET pos == PosOf(tree, nodeid)
           x == At(tree, pos)
       IN IF nodeid = 0
          THEN Refused(tree, "cannot remove ROOT or POS node")
          ELSE LET emptied == Put(tree, pos, [x EXCEPT !.kids = <<>>])
                   y == At(emptied, Front(pos))
                   i == IndexOf(y.kids, [x EXCEPT !.kids = <<>>])
               IN Edited(Canonicalize(Put(emptied, Front(pos),
                    [y EXCEPT !.kids = SpliceIn(y.kids, i, x.kids)])))

\* reattach with newparent = deletenode, after validate.
Deletenode(tree, nodeid) ==
  IF ~HasNode(tree, nodeid) THEN Raises(tree, "KeyError")
  ELSE LET pos == PosOf(tree, nodeid)
           x == At(tree, pos)
       IN IF nodeid = 0 \/ IsTok(x.kids[1])
          THEN Refused(tree, "cannot remove ROOT or POS node")
          ELSE LET emptied == Put(tree, pos, [x EXCEPT !.kids = <<>>])
                   y == At(emptied, Front(pos))
                   i == IndexOf(y.kids, [x EXCEPT !.kids = <<>>])
               IN Edited(Canonicalize(Put(emptied, Front(pos),
                    [y EXCEPT !.kids = SpliceIn(y.kids, i, x.kids)])))

\* reattach with nodeid = newlabel_<label>, after validate.
Splice(tree, newparent, label) ==
  IF ~HasNode(tree, newparent) THEN Raises(tree, "KeyError")
  ELSE LET pos == PosOf(tree, newparent)
           y == At(tree, pos)
       IN IF IsTok(y.kids[1])
          THEN Refused(tree, "cannot add node under POS tag")
          ELSE Edited(Canonicalize(Put(tree, pos,
                 [y EXCEPT !.kids = <<Node(label, y.kids)>>])))

\* The tree with x, at pos, taken from its parent and appended to the node at
\* ypos.  The node at ypos is the one picked before the removal: its position
\* shifts when x was an earlier sibling on the way to it, and it leaves the
\* tree together with x when it lies in x.  The root has no parent to be
\* taken from.
Moved(tree, pos, ypos) ==
  IF pos = <<>> THEN tree
  ELSE LET x == At(tree, pos)
           node == At(tree, Front(pos))
           i == IndexOf(node.kids, x)
           without == Put(tree, Front(pos), [node EXCEPT !.kids = Remove(node.kids, x)])
           k == Len(pos)
           shifted == IF Len(ypos) >= k /\ SubSeq(ypos, 1, k - 1) = Front(pos) /\ ypos[k] > i
                      THEN [ypos EXCEPT ![k] = ypos[k] - 1] ELSE ypos
       IN IF IsPrefix(pos, ypos) THEN without
          ELSE Put(without, shifted,
                   [At(without, shifted) EXCEPT !.kids = Append(@, x)])

\* reattach of a node under a new parent, after validate, refusing only the
\* node itself as the new parent.
ReattachUnderSelfOnly(tree, nodeid, newparent) ==
  IF ~HasNode(tree, nodeid) \/ ~HasNode(tree, newparent) THEN Raises(tree, "KeyError")
  ELSE LET pos == PosOf(tree, nodeid)
           ypos == PosOf(tree, newparent)
       IN IF pos = ypos
          THEN Refused(tree, "cannot re-attach subtree under (descendant of) itself")
          ELSE IF pos = <<>> \/ Len(At(tree, Front(pos)).kids) > 1
          THEN Edited(Canonicalize(Moved(tree, pos, ypos)))
          ELSE Refused(tree, "re-attaching only child creates empty node")

\* reattach of a node under a new parent, after validate, moving an only child
\* as well.
ReattachOnlyChild(tree, nodeid, newparent) ==
  IF ~HasNode(tree, nodeid) \/ ~HasNode(tree, newparent) THEN Raises(tree, "KeyError")
  ELSE LET pos == PosOf(tree, nodeid)
           ypos == PosOf(tree, newparent)
       IN IF IsPrefix(pos, ypos)
          THEN Refused(tree, "cannot re-attach subtree under (descendant of) itself")
          ELSE Edited(Canonicalize(Moved(tree, pos, ypos)))

\* reattach of a node under a new parent, after validate.
Reattach(tree, nodeid, newparent) ==
  IF ~HasNode(tree, nodeid) \/ ~HasNode(tree, newparent) THEN Raises(tree, "KeyError")
  ELSE LET pos == PosOf(tree, nodeid)
           ypos == PosOf(tree, newparent)
       IN IF IsPrefix(pos, ypos)
          THEN Refused(tree, "cannot re-attach subtree under (descendant of) itself")
          ELSE IF Len(At(tree, Front(pos)).kids) > 1
          THEN Edited(Canonicalize(Moved(tree, pos, ypos)))
          ELSE Refused(tree, "re-attaching only child creates empty node")

\* ------------------------------------------------------------- re-parsing
\* A replacesubtree that leaves the parser's token indices as they are.
KeepNumbers(t, subseq) == t

\* sorted(dt.nodes[nodeid].leaves())
Subseq(node) == SortSeq(Leaves(node), LAMBDA a, b : a < b)

\* The parser's tree has the tokens 0..k-1 of the subsentence, each under one
\* POS node, so the n-th POS node in the order of its token is the one over
\* token n: it gets subseq[n].
RECURSIVE Renumber(_, _)
Renumber(t, subseq) ==
  IF IsTok(t) THEN Leaf(subseq[t.tok + 1])
  ELSE [t EXCEPT !.kids = [i \in 1..Len(t.kids) |-> Renumber(t.kids[i], subseq)]]

\* The parses getparses may return for a subsentence of k tokens under the
\* label root: the second under POS tag V and the others under N, directly
\* under the root or under one more constituent P; a single token under a POS
\* tag as root is that tag's.
PosRun(k) == [i \in 1..k |-> Node(IF i = 2 THEN <<"V">> ELSE <<"N">>, <<Leaf(i - 1)>>)]
Flat(k, root) ==
  IF k = 1 /\ LabelMatch(root).cat \in Poslabels THEN Node(root, <<Leaf(0)>>)
  ELSE Node(root, PosRun(k))
Deep(k, root) == Node(root, <<Node(<<"P">>, PosRun(k))>>)

\* What WORKERS[username].submit(worker.getparses, ...).result() gives: an
\* exception, or a list of parses that may be empty.
Responses(k, root) ==
  {[raised |-> TRUE, parsetrees |-> <<>>]} \cup
  {[raised |-> FALSE, parsetrees |-> pt] :
     pt \in {<<>>, <<Flat(k, root)>>, <<Flat(k, root), Deep(k, root)>>}}

\* parsetrees[i]: Python's index, counting from the end when negative.
InRange(list, i) == i \in (0 - Len(list))..(Len(list) - 1)
Item(list, i) == IF i < 0 THEN list[Len(list) + i + 1] ELSE list[i + 1]

\* reparsesubtree, after validate and the lookup of the node.
Reparsesubtree(tree, nodeid, resp) ==
  IF ~HasNode(tree, nodeid) THEN Raises(tree, "KeyError")
  ELSE IF resp.raised THEN Raises(tree, "worker")
  ELSE IF ~InRange(resp.parsetrees, 0) THEN Raises(tree, "IndexError")
  ELSE [status |-> "nbest", error |-> "", tree |-> tree]

\* replacesubtree with the leaves of the node in their order in the tree.
ReplacesubtreeUnsorted(tree, nodeid, n, resp) ==
  IF ~HasNode(tree, nodeid) THEN Raises(tree, "KeyError")
  ELSE IF resp.raised THEN Raises(tree, "worker")
  ELSE IF ~InRange(resp.parsetrees, n - 1) THEN Raises(tree, "IndexError")
  ELSE LET pos == PosOf(tree, nodeid)
           x == At(tree, pos)
           newsubtree == Renumber(Item(resp.parsetrees, n - 1), Leaves(x))
       IN Edited(Canonicalize(Put(tree, pos, [x EXCEPT !.kids = newsubtree.kids])))

\* replacesubtree, after validate.
Replacesubtree(tree, nodeid, n, resp) ==
  IF ~HasNode(tree, nodeid) THEN Raises(tree, "KeyError")
  ELSE IF resp.raised THEN Raises(tree, "worker")
  ELSE IF ~InRange(resp.parsetrees, n - 1) THEN Raises(tree, "IndexError")
  ELSE LET pos == PosOf(tree, nodeid)
           x == At(tree, pos)
           newsubtree == Renumber(Item(resp.parsetrees, n - 1), Subseq(x))
       IN Edited(Canonicalize(Put(tree, pos, [x EXCEPT !.kids = newsubtree.kids])))

\* ------------------------------------------------------------- editing
\* The sentences annotated.
Sent2 == <<"a", "b">>
Sent3 == <<"a", "b", "c">>

\* The sequences of one or two items of S.
Seqs12(S) == {<<x>> : x \in S} \cup {<<x, y>> : x \in S, y \in S}

\* Trees an annotator may type, right and wrong, over the first two tokens: a
\* root over one or two nodes over up to two tokens.
LowLabels == {<<"N">>, <<"N", "-", "H">>, <<"N", "-", "X">>, <<"N", "/", "m">>,
              <<"-", "N">>, <<"S">>}
TopLabels == {<<"S">>, <<"S", "-", "W">>, <<"X">>, <<"N">>}
LowNodes ==
  {Node(l, k) : l \in LowLabels,
                k \in {<<>>, <<Leaf(0)>>, <<Leaf(1)>>, <<Leaf(0), Leaf(1)>>}}
TypedTrees == {Node(l, k) : l \in TopLabels, k \in Seqs12(LowNodes \cup {Leaf(0)})}

\* Trees with valid labels and three leaves at most, a token under any number
\* of POS tags: a root over one or two POS tags or constituents of POS tags.
PosNodes == {Node(<<"N">>, <<Leaf(i)>>) : i \in {0, 1, 2}}
MidNodes == {Node(<<"P">>, k) : k \in Seqs12(PosNodes)}
LabelledTrees ==
  {t \in {Node(<<"S">>, k) : k \in Seqs12(PosNodes \cup MidNodes)} :
     Len(Leaves(t)) \in {1, 2, 3}}

\* A right tree whose leaves are written with other words than the sentence's.
Reworded ==
  LET t == Node(<<"S">>, <<Node(<<"N">>, <<Leaf(0)>>), Node(<<"N">>, <<Leaf(1)>>)>>)
  IN {[ok |-> TRUE, tree |-> t, words |-> w] : w \in [{0, 1} -> {"a", "b", "c"}]}

InitEdit ==
  /\ InitServer
  /\ sentences = <<>>
  /\ queue = <<>>
  /\ rankings = <<>>
  /\ StartIdle
  /\ DecIdle
  /\ XIdle
  /\ \/ /\ senttok = Sent2
        /\ treestr \in {Writediscbrackettree(t, Sent2) : t \in TypedTrees}
                         \cup Reworded \cup {Garbage}
     \/ /\ senttok \in {Sent2, Sent3}
        /\ treestr \in {Writediscbrackettree(t, Sent3) : t \in LabelledTrees}
  /\ result = [op |-> "none", status |-> "none", error |-> "none"]
  /\ nedits = 0

EditFrame == UNCHANGED <<svars, sentences, queue, rankings, startvars, dtvars, xvars, senttok>>

\* try: validate(treestr, senttok); except ValueError as err: return str(err)
Rejected(op) ==
  /\ Validate(treestr, senttok) # "none"
  /\ result' = [op |-> op, status |-> "rejected", error |-> Validate(treestr, senttok)]
  /\ nedits' = nedits + 1
  /\ UNCHANGED treestr
  /\ EditFrame

\* The rest of an editing view: the tree it returns goes into the form; with
\* an error that is the tree validate returned, which dt is a copy of.
Returned(op, r) ==
  /\ result' = [op |-> op, status |-> r.status, error |-> r.error]
  /\ treestr' = IF r.status = "tree" /\ r.error = ""
                THEN Writediscbrackettree(r.tree, senttok)
                ELSE IF r.status = "tree"
                THEN Writediscbrackettree(Discbrackettree(treestr).tree, senttok)
                ELSE treestr
  /\ nedits' = nedits + 1
  /\ EditFrame

\* DrawTree(tree, senttok) raises when a token index occurs twice among the
\* leaves; the nodes it numbers are those of a copy with the children of
\* every node in the order of their leaves.
DrawTreeRaises(tree) == Len(Leaves(tree)) # Cardinality(Range(Leaves(tree)))
Validated == Discbrackettree(treestr).tree
Drawn == Canonicalize(Validated)

\* The labels a request may name; the node ids it may name are those of dt
\* and one beyond.
ReqLabels == {<<>>, <<"P">>, <<"X">>}

\* A view up to its DrawTree: validate refuses the tree, or DrawTree raises.
Stopped(op) ==
  \/ Rejected(op)
  \/ /\ Validate(treestr, senttok) = "none"
     /\ DrawTreeRaises(Validated)
     /\ Returned(op, Raises(Validated, "ValueError"))

\* The view goes on with the nodes of dt.
Passed == Validate(treestr, senttok) = "none" /\ ~DrawTreeRaises(Validated)

EditRedraw ==
  \/ /\ Validate(treestr, senttok) # "none"
     /\ result' = [op |-> "redraw", status |-> "rejected",
                   error |-> Validate(treestr, senttok)]
     /\ UNCHANGED <<treestr, nedits>>
     /\ EditFrame
  \/ /\ Validate(treestr, senttok) = "none"
     /\ result' = IF DrawTreeRaises(Validated)
                  THEN [op |-> "redraw", status |-> "exception", error |-> "ValueError"]
                  ELSE [op |-> "redraw", status |-> "drawn", error |-> ""]
     /\ UNCHANGED <<treestr, nedits>>
     /\ EditFrame

EditNewlabel ==
  /\ nedits < MaxEdits
  /\ \/ Stopped("newlabel")
     \/ /\ Passed
        /\ LET dt == Drawn
           IN \E nodeid \in 0..Len(Positions(dt)),
                 kind \in {"label", "function", "morph", "none"}, label \in ReqLabels :
                Returned("newlabel", Newlabel(dt, nodeid, kind, label))

EditDeletenode ==
  /\ nedits < MaxEdits
  /\ \/ Stopped("deletenode")
     \/ /\ Passed
        /\ LET dt == Drawn
           IN \E nodeid \in 0..Len(Positions(dt)) :
                Returned("deletenode", Deletenode(dt, nodeid))

EditSplice ==
  /\ nedits < MaxEdits
  /\ \/ Stopped("splice")
     \/ /\ Passed
        /\ LET dt == Drawn
           IN \E newparent \in 0..Len(Positions(dt)), label \in ReqLabels :
                Returned("splice", Splice(dt, newparent, label))

EditReattach ==
  /\ nedits < MaxEdits
  /\ \/ Stopped("reattach")
     \/ /\ Passed
        /\ LET dt == Drawn
           IN \E nodeid \in 0..Len(Positions(dt)), newparent \in 0..Len(Positions(dt)) :
                Returned("reattach", Reattach(dt, nodeid, newparent))

\* What the parser may answer when asked for the subsentence under a node.
Asked(dt, nodeid) ==
  IF HasNode(dt, nodeid)
  THEN LET x == At(dt, PosOf(dt, nodeid))
       IN Responses(Len(Leaves(x)), x.label)
  ELSE {[raised |-> TRUE, parsetrees |-> <<>>]}

EditReparsesubtree ==
  /\ nedits < MaxEdits
  /\ \/ Stopped("reparsesubtree")
     \/ /\ Passed
        /\ LET dt == Drawn
           IN \E nodeid \in 0..Len(Positions(dt)) :
                \E resp \in Asked(dt, nodeid) :
                  Returned("reparsesubtree", Reparsesubtree(dt, nodeid, resp))

EditReplacesubtree ==
  /\ nedits < MaxEdits
  /\ \/ Stopped("replacesubtree")
     \/ /\ Passed
        /\ LET dt == Drawn
           IN \E nodeid \in 0..Len(Positions(dt)), n \in {0, 1, 2} :
                \E resp \in Asked(dt, nodeid) :
                  Returned("replacesubtree", Replacesubtree(dt, nodeid, n, resp))

NextEdit ==
  \/ EditRedraw
  \/ EditNewlabel
  \/ EditDeletenode
  \/ EditSplice
  \/ EditReattach
  \/ EditReparsesubtree
  \/ EditReplacesubtree

SpecEdit == InitEdit /\ [][NextEdit]_vars

\* ------------------------------------------------------------- decision tree
\* getspans(tree): the labelled spans of the nodes other than the root.
Getspans(tree) ==
  {<<Subtrees(tree)[i].label, Subseq(Subtrees(tree)[i])>> :
     i \in 2..Len(Subtrees(tree))}

\* The features: the spans of all candidates.  data[n][span] is whether
\* candidate n has the span.
Features(parsetrees) == UNION {Getspans(parsetrees[n]) : n \in 1..Len(parsetrees)}
Splits(parsetrees, samples) ==
  {f \in Features(parsetrees) :
     /\ \E n \in samples : f \in Getspans(parsetrees[n])
     /\ \E n \in samples : f \notin Getspans(parsetrees[n])}

\* DecisionTreeClassifier().fit(data, range(n)) grown to the end: a node whose
\* samples no feature tells apart is a leaf, named after the first of its
\* classes (tree.value[n].nonzero()[1][0]); any other node splits on a feature,
\* the samples without it to the left.  Which of the splitting features the
\* estimator takes does not change the leaves' number.
RECURSIVE Fit(_, _)
Fit(parsetrees, samples) ==
  IF Splits(parsetrees, samples) = {} THEN <<SetMin(samples)>>
  ELSE LET f == CHOOSE g \in Splits(parsetrees, samples) : TRUE
       IN Fit(parsetrees, {n \in samples : f \notin Getspans(parsetrees[n])})
          \o Fit(parsetrees, {n \in samples : f \in Getspans(parsetrees[n])})

\* decisiontree(parsetrees, sent, urlprm): whether a tree is built and the
\* candidates its leaves name, left to right.
Decisiontree(parsetrees) ==
  IF Len(parsetrees) <= 1
  THEN [called |-> TRUE, built |-> FALSE, leaves |-> <<>>]
  ELSE [called |-> TRUE, built |-> TRUE,
        leaves |-> Fit(parsetrees, 1..Len(parsetrees))]

\* Parses of a sentence of two tokens: a constituent over both, alone or under
\* another one.
PhraseLabels == {<<"S">>, <<"P">>}
TwoPos == <<Node(<<"N">>, <<Leaf(0)>>), Node(<<"V">>, <<Leaf(1)>>)>>
Candidates ==
  {Node(<<"S">>, <<Node(l, TwoPos)>>) : l \in PhraseLabels} \cup
  {Node(<<"S">>, <<Node(l, <<Node(m, TwoPos)>>)>>) : l \in PhraseLabels, m \in PhraseLabels}

\* The n-best lists: getparses keeps one entry for a tree.
NBest ==
  {pt \in UNION {[1..n -> Candidates] : n \in 0..MaxCands} :
     \A i \in 1..Len(pt), j \in 1..Len(pt) : i # j => pt[i] # pt[j]}

InitDec ==
  /\ InitServer
  /\ sentences = <<>>
  /\ queue = <<>>
  /\ rankings = <<>>
  /\ StartIdle
  /\ EditIdle
  /\ XIdle
  /\ ranked \in NBest
  /\ dectree = [called |-> FALSE, built |-> FALSE, leaves |-> <<>>]

DecisiontreeCall ==
  /\ ~dectree.called
  /\ dectree' = Decisiontree(ranked)
  /\ UNCHANGED <<svars, sentences, queue, rankings, startvars, editvars, xvars, ranked>>

NextDec == DecisiontreeCall

SpecDec == InitDec /\ [][NextDec]_vars

\* ------------------------------------------------------------- questions
\* The sum of f over the set S.
RECURSIVE Total(_, _)
Total(S, f) ==
  IF S = {} THEN 0
  ELSE LET x == CHOOSE y \in S : TRUE IN f[x] + Total(S \ {x}, f)

\* Parses of a sentence of three tokens: the tokens, the first or the last two
\* of them under a constituent or not, under the root or under a sentence node.
Pos3 == [i \in {1, 2, 3} |-> Node(<<"N">>, <<Leaf(i - 1)>>)]
Groupings ==
  {Pos3, <<Node(<<"P">>, <<Pos3[1], Pos3[2]>>), Pos3[3]>>,
   <<Pos3[1], Node(<<"P">>, <<Pos3[2], Pos3[3]>>)>>}
Parses3 ==
  {Node(<<"ROOT">>, g) : g \in Groupings} \cup
  {Node(<<"ROOT">>, <<Node(<<"S">>, g)>>) : g \in Groupings}

\* data: for every candidate the spans it has.
Spans3 == [t \in Parses3 |-> Getspans(t)]
Data(nb) == [n \in DOMAIN nb |-> Spans3[nb[n].tree]]

\* The candidates of samples with and without feature f.
With(data, samples, f) == {n \in samples : f \in data[n]}
Without(data, samples, f) == {n \in samples : f \notin data[n]}

\* The criterion of DecisionTreeClassifier (gini) weighs a child by its sample
\* weight W: with every sample of a class of its own the split is the better
\* the larger sum(w^2 left)/W left + sum(w^2 right)/W right, here as numerator
\* and denominator.
Quality(data, w, samples, f) ==
  LET sq == [n \in DOMAIN w |-> w[n] * w[n]]
      l == Without(data, samples, f)
      r == With(data, samples, f)
  IN [num |-> Total(l, sq) * Total(r, w) + Total(r, sq) * Total(l, w),
      den |-> Total(l, w) * Total(r, w)]

\* The features that split the samples, and those of them the estimator may
\* take: the ones no other feature splits the samples better than.
Splitting(data, samples) ==
  {f \in UNION {data[n] : n \in samples} : \E n \in samples : f \notin data[n]}
Best(data, w, samples) ==
  LET q == [f \in Splitting(data, samples) |-> Quality(data, w, samples, f)]
  IN {f \in DOMAIN q : \A g \in DOMAIN q : q[g].num * q[f].den <= q[f].num * q[g].den}

\* The weighted depths of the leaves, summed, of the trees that splitting on
\* the best features (best) or on any feature can give; depth is the node's.
RECURSIVE Depths(_, _, _, _, _)
Depths(data, w, samples, depth, best) ==
  LET fs == IF best THEN Best(data, w, samples) ELSE Splitting(data, samples)
  IN IF fs = {} THEN {depth * Total(samples, w)}
     ELSE UNION {{a + b : a \in Depths(data, w, Without(data, samples, f), depth + 1, best),
                          b \in Depths(data, w, With(data, samples, f), depth + 1, best)} :
                 f \in fs}

\* estimator.fit(data, range(n), sample_weight=probs): the weighted depths
\* the fitted tree may have, and those of all trees over the features.
Fitted(nb) == Depths(Data(nb), [n \in DOMAIN nb |-> nb[n].prob], DOMAIN nb, 0, TRUE)
Separating(nb) == Depths(Data(nb), [n \in DOMAIN nb |-> nb[n].prob], DOMAIN nb, 0, FALSE)

\* The probabilities, in sevenths.
Probs == {1, 2}

\* The n-best lists of getparses: different trees, the more probable first.
NBestProbs ==
  {nb \in UNION {[1..n -> [prob : Probs, tree : Parses3]] : n \in 2..MaxFit} :
     /\ \A i \in DOMAIN nb, j \in DOMAIN nb : i # j => nb[i].tree # nb[j].tree
     /\ \A i \in DOMAIN nb, j \in DOMAIN nb : i < j => nb[i].prob >= nb[j].prob}

InitQuest ==
  /\ InitServer
  /\ sentences = <<>>
  /\ queue = <<>>
  /\ rankings = <<>>
  /\ StartIdle
  /\ EditIdle
  /\ DecIdle
  /\ nbest \in NBestProbs
  /\ questions = -1
  /\ reqstr = <<>>
  /\ reqkey = [parsed |-> FALSE, key |-> <<>>]
  /\ GIdle
  /\ YIdle

QuestFrame ==
  UNCHANGED <<svars, sentences, queue, rankings, startvars, editvars, dtvars, reqstr, reqkey, gvars, yvars>>

FitCall ==
  /\ questions = -1
  /\ questions' \in Fitted(nbest)
  /\ UNCHANGED nbest
  /\ QuestFrame

NextQuest == FitCall

SpecQuest == InitQuest /\ [][NextQuest]_vars

\* ------------------------------------------------------------- constraints
\* A constraint string is the sequence of its tab-separated items; an item is
\* a label and a span, the span the sequence of its comma-separated ranges: a
\* range "b-c" is <<b, c>>, a single index "b" is <<b>>.
\* range(int(b), int(c) + 1), or the index alone.
Expand(rng) ==
  IF Len(rng) = 1 THEN rng
  ELSE [k \in 1..(IF rng[2] >= rng[1] THEN rng[2] - rng[1] + 1 ELSE 0) |-> rng[1] + k - 1]

\* constr(item): the label and the indices of the span.
Constr(item) ==
  [label |-> item.label,
   seq |-> Concat([k \in 1..Len(item.span) |-> Expand(item.span[k])])]

\* The order of the labels as strings.
LabelRank(l) == CASE l = "NP" -> 1 [] l = "PP" -> 2

\* Lists of integers compare item by item, a prefix before what extends it.
RECURSIVE SeqLess(_, _)
SeqLess(a, b) ==
  IF b = <<>> THEN FALSE
  ELSE IF a = <<>> THEN TRUE
  ELSE IF Head(a) # Head(b) THEN Head(a) < Head(b)
  ELSE SeqLess(Tail(a), Tail(b))

\* (label, seq) < (label, seq) as tuples.
ConstrLess(a, b) ==
  \/ LabelRank(a.label) < LabelRank(b.label)
  \/ a.label = b.label /\ SeqLess(a.seq, b.seq)

\* parseconstraints for one of its two arguments: () for the empty string,
\* else the sorted constraints of the items.
Parseconstraints(str) ==
  SortSeq([k \in 1..Len(str) |-> Constr(str[k])], ConstrLess)

\* The items a request may list.
Items ==
  [label : {"NP", "PP"},
   span : {<<<<0>>>>, <<<<0, 1>>>>, <<<<0>>, <<1>>>>, <<<<1>>, <<0>>>>}]
ConstraintStrings == UNION {[1..n -> Items] : n \in 0..MaxItems}

InitConstr ==
  /\ InitServer
  /\ sentences = <<>>
  /\ queue = <<>>
  /\ rankings = <<>>
  /\ StartIdle
  /\ EditIdle
  /\ DecIdle
  /\ nbest = <<>>
  /\ questions = -1
  /\ reqstr \in ConstraintStrings
  /\ reqkey = [parsed |-> FALSE, key |-> <<>>]
  /\ GIdle
  /\ YIdle

ParseconstraintsCall ==
  /\ ~reqkey.parsed
  /\ reqkey' = [parsed |-> TRUE, key |-> Parseconstraints(reqstr)]
  /\ UNCHANGED <<svars, sentences, queue, rankings, startvars, editvars, dtvars,
                 nbest, questions, reqstr, gvars, yvars>>

NextConstr == ParseconstraintsCall

SpecConstr == InitConstr /\ [][NextConstr]_vars

\* ------------------------------------------------------------- parsing
\* The engine's list for a sentence: each derivation with its place in the
\* list, the tree its string is post-processed to, and its probability (a
\* weight; the comparisons of the code are between ratios of these).
Weights == {1, 2}
EngineLists ==
  {[k \in 1..Len(f) |-> [deriv |-> k, tree |-> f[k].tree, prob |-> f[k].prob]] :
     f \in UNION {[1..n -> [tree : 1..MaxTrees, prob : Weights]] : n \in 0..MaxDerivs}}

\* sum(a[1] for a in parsetrees)
RECURSIVE Probmass(_)
Probmass(parsetrees) ==
  IF parsetrees = <<>> THEN 0
  ELSE Head(parsetrees).prob + Probmass(Tail(parsetrees))

\* applythreshold with a non-strict comparison.
ApplythresholdNonStrict(parsetrees) ==
  IF Len(parsetrees) <= 3 THEN parsetrees
  ELSE SelectSeq(parsetrees,
         LAMBDA a : a.prob * Len(parsetrees) >= Probmass(parsetrees))

\* applythreshold: the list itself when it has at most three items, else the
\* items with prob / probmass > 1 / len(parsetrees), in their order.
Applythreshold(parsetrees) ==
  IF Len(parsetrees) <= 3 THEN parsetrees
  ELSE SelectSeq(parsetrees,
         LAMBDA a : a.prob * Len(parsetrees) > Probmass(parsetrees))

\* sorted(..., key=prob, reverse=True): a stable sort, so items of equal
\* probability keep their order.
RECURSIVE ByProb(_)
ByProb(parsetrees) ==
  IF parsetrees = <<>> THEN <<>>
  ELSE LET rest == ByProb(Front(parsetrees))
           a == Last(parsetrees)
           before == SelectSeq(rest, LAMBDA b : b.prob >= a.prob)
           after == SelectSeq(rest, LAMBDA b : b.prob < a.prob)
       IN before \o <<a>> \o after

\* The merge that keeps the probability of the first derivation of a tree.
RECURSIVE MergedUnsummed(_)
MergedUnsummed(parsetrees) ==
  IF parsetrees = <<>> THEN <<>>
  ELSE LET done == MergedUnsummed(Front(parsetrees))
           a == Last(parsetrees)
       IN IF \E k \in 1..Len(done) : done[k].tree = a.tree
          THEN done
          ELSE Append(done, a)

\* The loop over the derivations: the first derivation of a tree enters the
\* ordered dictionary, a later one adds its probability to the entry.
RECURSIVE Merged(_)
Merged(parsetrees) ==
  IF parsetrees = <<>> THEN <<>>
  ELSE LET done == Merged(Front(parsetrees))
           a == Last(parsetrees)
       IN IF \E k \in 1..Len(done) : done[k].tree = a.tree
          THEN [k \in 1..Len(done) |->
                  IF done[k].tree = a.tree
                  THEN [done[k] EXCEPT !.prob = @ + a.prob]
                  ELSE done[k]]
          ELSE Append(done, a)

\* getparses: nothing is parsed of a sentence longer than LIMIT; else the
\* engine's list goes through applythreshold, the sort, the merge and the
\* second sort.
Getparses(sent) ==
  IF sent.ntok > LIMIT
  THEN [called |-> TRUE, parsed |-> FALSE, senttok |-> 0, parsetrees |-> <<>>,
        messages |-> "sentence too long", elapsed |-> "None"]
  ELSE [called |-> TRUE, parsed |-> TRUE, senttok |-> sent.ntok,
        parsetrees |-> ByProb(Merged(ByProb(Applythreshold(sent.parsetrees)))),
        messages |-> "list", elapsed |-> "list"]

\* The parse view: the page tells of no parse or shows the best tree, then
\* the messages and the elapsed times are joined; iterating over an elapsed
\* that is None raises TypeError.
Parse(sent) ==
  LET r == Getparses(sent)
  IN IF r.elapsed = "None"
     THEN [status |-> "TypeError", result |-> "", msg |-> -1]
     ELSE [status |-> "rendered",
           result |-> IF r.parsetrees = <<>> THEN "no parse!" ELSE "",
           msg |-> Len(r.parsetrees)]

InitParse ==
  /\ InitServer
  /\ sentences = <<>>
  /\ queue = <<>>
  /\ rankings = <<>>
  /\ StartIdle
  /\ EditIdle
  /\ DecIdle
  /\ nbest = <<>>
  /\ questions = -1
  /\ reqstr = <<>>
  /\ reqkey = [parsed |-> FALSE, key |-> <<>>]
  /\ job \in [ntok : 1..(LIMIT + 1), parsetrees : EngineLists]
  /\ kept = [called |-> FALSE, parsetrees |-> <<>>]
  /\ reply = NoResp
  /\ page = [status |-> "none", result |-> "", msg |-> -1]
  /\ YIdle

ParseFrame ==
  UNCHANGED <<svars, sentences, queue, rankings, startvars, editvars, dtvars,
              nbest, questions, reqstr, reqkey, job, yvars>>

ApplythresholdCall ==
  /\ ~kept.called
  /\ kept' = [called |-> TRUE, parsetrees |-> Applythreshold(job.parsetrees)]
  /\ UNCHANGED <<reply, page>>
  /\ ParseFrame

GetparsesCall ==
  /\ ~reply.called
  /\ reply' = Getparses(job)
  /\ UNCHANGED <<kept, page>>
  /\ ParseFrame

ParseView ==
  /\ page.status = "none"
  /\ page' = Parse(job)
  /\ UNCHANGED <<kept, reply>>
  /\ ParseFrame

NextParse == ApplythresholdCall \/ GetparsesCall \/ ParseView

SpecParse == InitParse /\ [][NextParse]_vars

\* ------------------------------------------------------------- engines
\* ProcessPoolExecutor(max_workers=1): the number of worker processes of an
\* annotator's pool.
max_workers == 1

\* A pool of two worker processes.
FreeOfTwo(e) == Cardinality(e.running) < 2

\* A worker process of the pool is free to take a call.
Free(e) == Cardinality(e.running) < max_workers

InitEngines ==
  /\ InitServer
  /\ sentences = <<>>
  /\ queue = <<>>
  /\ rankings = <<>>
  /\ StartIdle
  /\ EditIdle
  /\ DecIdle
  /\ nbest = <<>>
  /\ questions = -1
  /\ reqstr = <<>>
  /\ reqkey = [parsed |-> FALSE, key |-> <<>>]
  /\ GIdle
  /\ engines = [u \in Users |-> NoEngine]
  /\ stored = NotStored
  /\ actions = 0

EnginesFrame ==
  UNCHANGED <<svars, sentences, queue, rankings, startvars, editvars, dtvars,
              nbest, questions, reqstr, reqkey, gvars, stored, actions>>

\* dologin: the annotator's pool is made and loadgrammar submitted to it, the
\* pool's first call.
EngineCreate(u) ==
  /\ ~engines[u].up
  /\ engines' = [engines EXCEPT ![u] =
       [up |-> TRUE, queue |-> <<1>>, running |-> {}, started |-> <<>>, nsub |-> 1]]
  /\ EnginesFrame

\* A request's thread submits a call to WORKERS[username]; the calls of a
\* pool are numbered as they are submitted.
EngineSubmit(u) ==
  /\ engines[u].up
  /\ engines[u].nsub < MaxJobs
  /\ engines' = [engines EXCEPT ![u] =
       [@ EXCEPT !.queue = Append(@, engines[u].nsub + 1), !.nsub = @ + 1]]
  /\ EnginesFrame

\* A free worker process takes the first call waiting.
EngineStart(u) ==
  /\ engines[u].queue # <<>>
  /\ Free(engines[u])
  /\ engines' = [engines EXCEPT ![u] =
       [@ EXCEPT !.queue = Tail(@),
                 !.running = @ \cup {Head(engines[u].queue)},
                 !.started = Append(@, Head(engines[u].queue))]]
  /\ EnginesFrame

\* The call returns and its future is set.
EngineFinish(u) ==
  /\ \E j \in engines[u].running :
       engines' = [engines EXCEPT ![u] = [@ EXCEPT !.running = @ \ {j}]]
  /\ EnginesFrame

NextEngines ==
  \E u \in Users :
    \/ EngineCreate(u)
    \/ EngineSubmit(u)
    \/ EngineStart(u)
    \/ EngineFinish(u)

SpecEngines == InitEngines /\ [][NextEngines]_vars

\* ------------------------------------------------------------- accepting
\* accept with the tree of the form: discbrackettree reads the tree and its
\* tokens from the string; the tree is written with these tokens and stored,
\* and an augment call with them is submitted.
Accept(str) ==
  LET read == Discbrackettree(str)
  IN IF read.raised
     THEN [status |-> "exception", tree |-> <<>>, sent |-> <<>>, augment |-> FALSE]
     ELSE [status |-> "stored", tree |-> read.tree, sent |-> read.sent, augment |-> TRUE]

AcceptEdited ==
  /\ stored.status = "none"
  /\ stored' = Accept(treestr)
  /\ UNCHANGED <<svars, sentences, queue, rankings, startvars, editvars, dtvars,
                 nbest, questions, reqstr, reqkey, gvars, engines, actions>>

NextAccept == AcceptEdited

SpecAccept == InitEdit /\ [][NextAccept]_vars

\* ------------------------------------------------------------- re-attaching
\* The reattach view with the session's count of its edits.
\* A count of every tree returned, with an error or without.
CountedAlways(r) == r.status = "tree"

\* if error == '': session['actions'][REATTACH] += 1
Counted(r) == r.status = "tree" /\ r.error = ""

ReattachFrame ==
  UNCHANGED <<svars, sentences, queue, rankings, startvars, dtvars, senttok,
              nbest, questions, reqstr, reqkey, gvars, engines, stored>>

\* The view from its branch to its end: the tree it made, or with an error
\* the tree validate returned, is written into the answer, and the edit is
\* counted when there is no error.
ReattachReturned(op, r) ==
  /\ result' = [op |-> op, status |-> r.status, error |-> r.error]
  /\ treestr' = IF r.status = "tree" /\ r.error = ""
                THEN Writediscbrackettree(r.tree, senttok)
                ELSE IF r.status = "tree"
                THEN Writediscbrackettree(Discbrackettree(treestr).tree, senttok)
                ELSE treestr
  /\ actions' = IF Counted(r) THEN actions + 1 ELSE actions
  /\ nedits' = nedits + 1
  /\ ReattachFrame

\* validate refuses the tree (the view returns the error), or DrawTree raises.
ReattachStopped(op) ==
  \/ /\ Validate(treestr, senttok) # "none"
     /\ result' = [op |-> op, status |-> "rejected", error |-> Validate(treestr, senttok)]
     /\ nedits' = nedits + 1
     /\ UNCHANGED <<treestr, actions>>
     /\ ReattachFrame
  \/ /\ Validate(treestr, senttok) = "none"
     /\ DrawTreeRaises(Validated)
     /\ ReattachReturned(op, Raises(Validated, "ValueError"))

ViewDeletenode ==
  /\ nedits < MaxEdits
  /\ \/ ReattachStopped("deletenode")
     \/ /\ Passed
        /\ LET dt == Drawn
           IN \E nodeid \in 0..Len(Positions(dt)) :
                ReattachReturned("deletenode", Deletenode(dt, nodeid))

ViewSplice ==
  /\ nedits < MaxEdits
  /\ \/ ReattachStopped("splice")
     \/ /\ Passed
        /\ LET dt == Drawn
           IN \E newparent \in 0..Len(Positions(dt)), label \in ReqLabels :
                ReattachReturned("splice", Splice(dt, newparent, label))

ViewReattach ==
  /\ nedits < MaxEdits
  /\ \/ ReattachStopped("reattach")
     \/ /\ Passed
        /\ LET dt == Drawn
           IN \E nodeid \in 0..Len(Positions(dt)), newparent \in 0..Len(Positions(dt)) :
                ReattachReturned("reattach", Reattach(dt, nodeid, newparent))

NextReattach == ViewDeletenode \/ ViewSplice \/ ViewReattach

SpecReattach == InitEdit /\ [][NextReattach]_vars

\* ------------------------------------------------------------- properties
Live(p) == pools[p].st = "up" /\ ~pools[p].shut

\* Thread t ends its request in this step.
Ends(t) == th[t].pc # "idle" /\ th'[t].pc = "idle"

\* C1: for every annotator, at most one live process pool exists at any time,
\* however many dologin requests were made for them, one after another or at
\* once.
C1_OneEnginePerAnnotator ==
  \A u \in Users :
    Cardinality({p \in Pools : pools[p].owner = u /\ Live(p)}) <= 1

C3_DeadEngineReported ==
  [][\A t \in Threads :
       (/\ Ends(t)
        /\ WORKERS[th[t].user] # 0
        /\ pools[WORKERS[th[t].user]].st \in {"dead", "broken"}
        /\ th[t].pc \in {"pa_submit", "ac_parse", "ac_augment"})
         => th'[t].resp = "BrokenProcessPool"]_vars

\* C4: a login-required operation is not served on a pool known to be broken:
\* when the annotator's pool is broken as the request arrives, the request is
\* not passed on to the view with that pool still registered.
C4_ReprovisionedOnAccess ==
  [][\A t \in Threads :
       (/\ th[t].pc = "idle"
        /\ th'[t].pc \in {"pa_submit", "ac_parse", "ac_store"})
         => pools[WORKERS'[th'[t].user]].st # "broken"]_vars

\* C5: the value workerattr returns to an annotator was read from a pool of
\* that annotator.
C5_WorkerattrPerAnnotator ==
  \A t \in Threads :
    (th[t].op = "parse" /\ th[t].resp = "ok" /\ th[t].val # 0)
      => pools[th[t].val].owner = th[t].user

\* C6: when a running pool is registered for an annotator, its worker has
\* loaded the grammar and every tree it was trained on belongs to a sentence
\* that annotator has a stored annotation for.
C6_TrainedOnOwnAnnotations ==
  [][\A u \in Users :
       (/\ WORKERS'[u] # WORKERS[u]
        /\ WORKERS'[u] # 0
        /\ pools[WORKERS'[u]].st = "up")
         => /\ pools[WORKERS'[u]].loaded
            /\ \A item \in pools[WORKERS'[u]].trained :
                 db[u][item[1]] # "none"]_vars

\* The step is one of annotator u: of a request of u, or of a pool owned by u.
StepOf(u) ==
  \/ \E t \in Threads : th'[t] # th[t] /\ th'[t].user = u
  \/ \E p \in Pools : pools'[p] # pools[p] /\ pools'[p].owner = u

\* C7: a step of annotator A leaves the handle, the training state and the
\* parse cache of every other annotator B as they were, and a property value
\* B is answered with comes from a pool of B.
C7_Isolation ==
  [][\A a \in Users : \A b \in Users \ {a} :
       /\ (StepOf(a) /\ ~StepOf(b)) =>
            /\ WORKERS'[b] = WORKERS[b]
            /\ \A p \in Pools :
                 pools[p].owner = b =>
                   /\ pools'[p].trained = pools[p].trained
                   /\ pools'[p].naug = pools[p].naug
                   /\ pools'[p].cache = pools[p].cache
       /\ \A t \in Threads :
            (Ends(t) /\ th[t].user = b /\ th'[t].val # 0)
              => pools[th'[t].val].owner = b]_vars

\* C8: a logout request never ends with an error.
C8_LogoutNoError ==
  \A t \in Threads :
    (th[t].op = "logout" /\ th[t].pc = "idle") => th[t].resp = "ok"

\* C9: the addentry of an accept by annotator a writes exactly the accepted
\* tree under (a, sentence) and no other row; a row changes only by such a
\* write; an accept that completes has, in its last step, appended one augment
\* call for that tree to the queue of a's registered pool, a pool of a, and no
\* other step of an accept dispatches an augment to any pool.
C9_AcceptStoresAndAugments ==
  [][/\ db' # db =>
          \E t \in Threads :
            /\ th[t].op = "accept"
            /\ th[t].pc \in {"ac_store", "ac_wait"}
            /\ th'[t].pc = "ac_augment"
            /\ db' = [db EXCEPT ![th[t].user][th[t].sent] = th[t].tree]
            /\ <<th[t].sent, th[t].tree>> \in Readannotations(db', th[t].user)
     /\ \A t \in Threads :
          (th[t].op = "accept" /\ th[t].pc # "idle" /\ th'[t] # th[t]) =>
            IF th'[t].pc = "idle" /\ th'[t].resp = "stored"
            THEN LET p == WORKERS[th[t].user]
                 IN /\ p # 0
                    /\ pools[p].owner = th[t].user
                    /\ pools'[p].queue = Append(pools[p].queue,
                         Job("augment", {<<th[t].sent, th[t].tree>>}, 0, pools[p].nsub))
                    /\ pools'[p].nsub = pools[p].nsub + 1
                    /\ \A o \in Pools \ {p} : pools'[o] = pools[o]
            ELSE \A o \in Pools : pools'[o].nsub = pools[o].nsub]_vars

\* An accept has completed: its tree is stored and its annotator's pool was
\* sent an augment call.
C9_Witness ==
  \E t \in Threads :
    /\ th[t].op = "accept" /\ th[t].pc = "idle" /\ th[t].resp = "stored"
    /\ Readannotations(db, th[t].user) # {}
    /\ \E p \in Pools : pools[p].owner = th[t].user /\ pools[p].nsub >= 1

\* C10: the queue written to the rankings file is a permutation of the
\* sentence indices 0..N-1, in order of descending entropy, ties in original
\* order.
C10_SortedByEntropy ==
  rankings # <<>> =>
    LET q == rankings[1]
    IN /\ Len(q) = Len(sentences)
       /\ {q[i].n : i \in 1..Len(q)} = 0..(Len(sentences) - 1)
       /\ \A i, j \in 1..Len(q) :
            i < j => \/ q[i].ent > q[j].ent
                     \/ q[i].ent = q[j].ent /\ q[i].n < q[j].n

Parts(label) ==
  {p \in [cat : {SubSeq(label, 1, i) : i \in 1..Len(label)},
          func : {SubSeq(label, i, j) : i \in 1..(Len(label) + 1), j \in 0..Len(label)},
          morph : {SubSeq(label, i, Len(label)) : i \in 1..(Len(label) + 1)}] :
     /\ label = p.cat \o p.func \o p.morph
     /\ \A k \in 1..Len(p.cat) : p.cat[k] \notin {"-", "/", " "}
     /\ p.func # <<>> => /\ Len(p.func) > 1
                         /\ p.func[1] = "-"
                         /\ \A k \in 2..Len(p.func) : p.func[k] \notin {"/", " "}
     /\ p.morph # <<>> => /\ Len(p.morph) > 1
                          /\ p.morph[1] = "/"
                          /\ \A k \in 2..Len(p.morph) : p.morph[k] # " "}

\* The node is as the annotation scheme wants it.
NodeOk(node) ==
  /\ Parts(node.label) # {}
  /\ Len(node.kids) >= 1
  /\ \A p \in Parts(node.label) :
       /\ IF IsTok(node.kids[1])
          THEN Len(node.kids) = 1 /\ p.cat \in Poslabels
          ELSE /\ \A i \in 1..Len(node.kids) : ~IsTok(node.kids[i])
               /\ p.cat \in Phrasallabels
       /\ p.func # <<>> => Tail(p.func) \in Functiontags \cup FUNCTIONTAGWHITELIST

\* The tree string is a bracketing whose leaves spell the sentence.
SentenceKept == ~Discbrackettree(treestr).raised /\ Discbrackettree(treestr).sent = senttok

\* C14: validate accepts a tree of the sentence exactly when every node has a
\* label of the form category[-function][/morph] and at least one child, a
\* node whose first child is a token has that one child and a category among
\* the POS tags, any other node has only subtrees as children and a category
\* among the phrasal labels, and a function tag, when there is one, is among
\* the function tags or the whitelist.
C14_ValidateAcceptsWellFormed ==
  (result.op = "redraw" /\ SentenceKept) =>
    LET nodes == Subtrees(Validated)
    IN result.status # "rejected" <=> \A i \in 1..Len(nodes) : NodeOk(nodes[i])

\* An accepted tree with a function tag of the whitelist.
C14_Witness ==
  /\ result.op = "redraw"
  /\ result.status = "drawn"
  /\ Validated.label = <<"S", "-", "W">>

\* C15: a tree string whose leaves do not spell the sentence is rejected with
\* the error that the sentence was modified, which no other tree string gets;
\* what an editing view returns spells the sentence.
C15_SentenceKept ==
  result.op # "none" =>
    /\ (~Discbrackettree(treestr).raised /\ ~SentenceKept) =>
         (result.status = "rejected" /\ result.error = "sentence was modified")
    /\ result.error = "sentence was modified" =>
         (~Discbrackettree(treestr).raised /\ ~SentenceKept)
    /\ result.status = "tree" => SentenceKept

\* A tree whose two words were written in the other order was rejected.
C15_Witness ==
  /\ treestr \in Reworded
  /\ treestr.words[0] = "b" /\ treestr.words[1] = "a"
  /\ result.status = "rejected"
  /\ result.error = "sentence was modified"


\* The node ids of dt.
Ids == 0..(Len(Positions(Drawn)) - 1)

\* The tree with the children of the node at pos in its parent, at the place
\* the node had, children in the order of their leaves.
WithoutNode(tree, pos) ==
  LET x == At(tree, pos)
      parent == At(tree, Front(pos))
      i == Last(pos)
  IN Canonicalize(Put(tree, Front(pos),
       [parent EXCEPT !.kids = SubSeq(parent.kids, 1, i - 1) \o x.kids
                                 \o SubSeq(parent.kids, i + 1, Len(parent.kids))]))

\* C16: deleting a node is refused, the tree staying as it is, when the node
\* is the root or a POS node; the deletion of any other node gives the tree
\* without the node, its children in its parent at the place it had.
C16_DeleteNode ==
  /\ [](Passed =>
         \A nodeid \in Ids :
           LET pos == PosOf(Drawn, nodeid)
               r == Deletenode(Drawn, nodeid)
           IN IF pos = <<>> \/ IsTok(At(Drawn, pos).kids[1])
              THEN r.status = "tree" /\ r.error # "" /\ r.tree = Drawn
              ELSE r.status = "tree" /\ r.error = "" /\ r.tree = WithoutNode(Drawn, pos))
  /\ [][(Passed /\ result'.op = "deletenode") =>
       /\ result'.error = "cannot remove ROOT or POS node" => treestr' = treestr
       /\ (result'.status = "tree" /\ result'.error = "") =>
            \E nodeid \in Ids \ {0} :
              /\ ~IsTok(At(Drawn, PosOf(Drawn, nodeid)).kids[1])
              /\ treestr' = Writediscbrackettree(
                              WithoutNode(Drawn, PosOf(Drawn, nodeid)), senttok)]_vars

\* A node was deleted.
C16_Witness ==
  /\ result.op = "deletenode"
  /\ result.status = "tree"
  /\ result.error = ""
  /\ Len(Subtrees(Validated)) < Len(Leaves(Validated)) + 2

\* The node at ypos is the node at pos or below it.
Within(pos, ypos) == \E q \in {SubSeq(ypos, i, Len(ypos)) : i \in 1..(Len(ypos) + 1)} :
                       ypos = pos \o q

\* C17: re-attaching a node under itself or under a node below it is refused,
\* the tree staying as it is; a re-attachment made loses no leaf.
C17_NoReattachUnderItself ==
  /\ [](Passed =>
         LET dt == Drawn
             nodes == Positions(dt)
         IN \A nodeid \in 1..Len(nodes), newparent \in 1..Len(nodes) :
              Within(nodes[nodeid], nodes[newparent]) =>
                LET r == Reattach(dt, nodeid - 1, newparent - 1)
                IN r.status = "tree" /\ r.error # "" /\ r.tree = dt)
  /\ [][(Passed /\ result'.op = "reattach") =>
       /\ result'.error = "cannot re-attach subtree under (descendant of) itself" =>
            treestr' = treestr
       /\ (result'.status = "tree" /\ result'.error = "") =>
            Subseq(Discbrackettree(treestr').tree) = Subseq(Validated)]_vars

\* A re-attachment under the node itself or below it was refused.
C17_Witness ==
  /\ result.op = "reattach"
  /\ result.status = "tree"
  /\ result.error = "cannot re-attach subtree under (descendant of) itself"

\* The node at pos is the only child of its parent.
OnlyChild(tree, pos) == pos # <<>> /\ Len(At(tree, Front(pos)).kids) = 1

\* C18: re-attaching a node that is the only child of its parent is refused,
\* the tree staying as it is; a re-attachment made leaves no node empty.
C18_NoReattachOfOnlyChild ==
  /\ [](Passed =>
         LET dt == Drawn
             nodes == Positions(dt)
         IN \A nodeid \in 1..Len(nodes), newparent \in 1..Len(nodes) :
              OnlyChild(dt, nodes[nodeid]) =>
                LET r == Reattach(dt, nodeid - 1, newparent - 1)
                IN r.status = "tree" /\ r.error # "" /\ r.tree = dt)
  /\ [][(Passed /\ result'.op = "reattach") =>
       /\ result'.error = "re-attaching only child creates empty node" =>
            treestr' = treestr
       /\ (result'.status = "tree" /\ result'.error = "") =>
            \A i \in 1..Len(Subtrees(Discbrackettree(treestr').tree)) :
              Subtrees(Discbrackettree(treestr').tree)[i].kids # <<>>]_vars

\* The re-attachment of an only child was refused.
C18_Witness ==
  /\ result.op = "reattach"
  /\ result.status = "tree"
  /\ result.error = "re-attaching only child creates empty node"


\* An editing view returned a tree without an error.
EditMade == result.status = "tree" /\ result.error = ""

\* C12: the tree an edit returns passes validate and has the children of
\* every node in the order of their leaves; an edit that gives a node a label
\* outside the grammar's sets, or puts a subtree under a POS node, is refused.
C12_EditsReturnValidTrees ==
  EditMade => /\ Validate(treestr, senttok) = "none"
              /\ Canonicalize(Validated) = Validated

\* C13: after an edit of a validated tree every token index of the sentence
\* occurs exactly once among the leaves, so that no node is under two
\* parents.
C13_EveryTokenOnce ==
  EditMade =>
    LET nodes == Subtrees(Validated)
        at == Positions(Validated)
    IN /\ ~Discbrackettree(treestr).raised
       /\ Subseq(Validated) = [i \in 1..Len(senttok) |-> i - 1]
       /\ \A i \in 1..Len(nodes), j \in 1..Len(nodes) :
            i # j => \/ Range(Leaves(nodes[i])) \cap Range(Leaves(nodes[j])) = {}
                     \/ Within(at[i], at[j])
                     \/ Within(at[j], at[i])

\* A node of a tree over three tokens was re-attached.
C13_Witness ==
  /\ EditMade
  /\ result.op = "reattach"
  /\ Len(senttok) = Len(Sent3)

\* C19: every request for an editing view ends with a tree or with the reason
\* of its rejection, none with an exception.
C19_NoException == result.status # "exception"


\* C20: for two or more candidates the decision tree has as many leaves as
\* there are candidates, each candidate named by one of them; for one
\* candidate or none no tree is built.
C20_LeafPerCandidate ==
  dectree.called =>
    /\ dectree.built <=> Len(ranked) >= 2
    /\ dectree.built =>
         /\ Len(dectree.leaves) = Len(ranked)
         /\ Range(dectree.leaves) = 1..Len(ranked)


\* C21: the decision tree fitted to the candidates has the least weighted
\* depth of leaves of all decision trees over the same features.
C21_FewestQuestions ==
  questions # -1 => \A d \in Separating(nbest) : questions <= d


\* The constraints a string lists: the labels with the sets of indices.
Listed(str) == {<<Constr(str[k]).label, Range(Constr(str[k]).seq)>> : k \in 1..Len(str)}

\* C22: the key parseconstraints returns has the constraints of the string in
\* sorted order, none of them twice, the empty tuple for the empty string, and
\* is the key of every string that lists the same constraints.
C22_CanonicalKey ==
  reqkey.parsed =>
    /\ Listed(reqstr) = {<<reqkey.key[k].label, Range(reqkey.key[k].seq)>> :
                           k \in 1..Len(reqkey.key)}
    /\ \A j \in 1..Len(reqkey.key), k \in 1..Len(reqkey.key) :
         j < k => /\ ~ConstrLess(reqkey.key[k], reqkey.key[j])
                  /\ reqkey.key[j] # reqkey.key[k]
    /\ reqstr = <<>> => reqkey.key = <<>>
    /\ \A other \in ConstraintStrings :
         Listed(other) = Listed(reqstr) => Parseconstraints(other) = reqkey.key


\* C23: a sentence of more than LIMIT tokens is not parsed and the request
\* that asked for its parse ends with the page rendered; a sentence of LIMIT
\* tokens is parsed.
C23_TooLongIsReported ==
  /\ reply.called =>
       IF job.ntok > LIMIT
       THEN ~reply.parsed /\ reply.messages = "sentence too long"
       ELSE reply.parsed
  /\ page.status # "none" => page.status = "rendered"

\* The probabilities of the derivations of a list that stand for the tree.
MassOf(parsetrees, tree) ==
  Total({k \in 1..Len(parsetrees) : parsetrees[k].tree = tree},
        [k \in 1..Len(parsetrees) |-> parsetrees[k].prob])

Distinct(parsetrees) ==
  {<<parsetrees[k].tree, MassOf(parsetrees, parsetrees[k].tree)>> : k \in 1..Len(parsetrees)}

\* C25: the candidates of getparses are the distinct trees of the engine's
\* list, all of them when they are at most three, else those whose summed
\* probability is more than the share 1/n of the mass of the n distinct trees.
C25_PrunedAfterMerge ==
  reply.parsed =>
    LET trees == Distinct(job.parsetrees)
        n == Cardinality(trees)
        mass == Probmass(job.parsetrees)
    IN {<<reply.parsetrees[k].tree, reply.parsetrees[k].prob>> :
          k \in 1..Len(reply.parsetrees)}
       = IF n <= 3 THEN trees ELSE {c \in trees : c[2] * n > mass}

\* C26: applythreshold returns a list of at most three items as it is; of a
\* longer list of n items it returns, in their order, exactly the items whose
\* share of the probability mass is more than 1/n.
C26_Threshold ==
  kept.called =>
    LET given == job.parsetrees
        n == Len(given)
        mass == Total(1..n, [k \in 1..n |-> given[k].prob])
        out == kept.parsetrees
    IN IF n <= 3 THEN out = given
       ELSE /\ \A j \in 1..Len(out) : out[j] \in Range(given)
            /\ \A j \in 1..Len(out), k \in 1..Len(out) :
                 j < k => out[j].deriv < out[k].deriv
            /\ \A k \in 1..n :
                 (given[k] \in Range(out)) <=> (given[k].prob * n > mass)

C26_Witness ==
  /\ kept.called
  /\ Len(job.parsetrees) > 3
  /\ kept.parsetrees # <<>>
  /\ Len(kept.parsetrees) < Len(job.parsetrees)

\* The place of the first derivation of the tree in the engine's list.
FirstPlace(parsetrees, tree) ==
  SetMin({k \in 1..Len(parsetrees) : parsetrees[k].tree = tree})

\* C27: the candidates of getparses are in order of probability, highest
\* first, and candidates of equal probability are in the order in which their
\* trees first occur in the engine's list.
C27_OrderedByProbability ==
  reply.parsed =>
    \A j \in 1..Len(reply.parsetrees), k \in 1..Len(reply.parsetrees) :
      j < k =>
        /\ reply.parsetrees[j].prob >= reply.parsetrees[k].prob
        /\ reply.parsetrees[j].prob = reply.parsetrees[k].prob =>
             FirstPlace(job.parsetrees, reply.parsetrees[j].tree)
               < FirstPlace(job.parsetrees, reply.parsetrees[k].tree)


\* The candidate with its i-th token, in the order of the tokens, become the
\* i-th smallest of the indices.
RECURSIVE Carried(_, _, _)
Carried(cand, from, indices) ==
  IF IsTok(cand)
  THEN Leaf(CHOOSE v \in indices :
              Cardinality({w \in indices : w <= v})
                = Cardinality({w \in from : w <= cand.tok}))
  ELSE [cand EXCEPT !.kids = [i \in 1..Len(cand.kids) |->
                                Carried(cand.kids[i], from, indices)]]

\* C28: replacing a subtree by a candidate gives the node its label as before
\* and the children of the candidate, the candidate's i-th token numbered as
\* the i-th smallest token index under the node, whether these are adjacent or
\* not; the tree is as before everywhere else.
C28_ReplaceSubtree ==
  /\ [](Passed =>
         LET dt == Drawn
             at == Positions(dt)
         IN \A i \in 1..Len(at) :
              LET pos == at[i]
                  x == At(dt, pos)
                  indices == Range(Leaves(x))
              IN \A asked \in Responses(Len(Leaves(x)), x.label), n \in {0, 1, 2} :
                   (~asked.raised /\ InRange(asked.parsetrees, n - 1)) =>
                     LET r == Replacesubtree(dt, i - 1, n, asked)
                         cand == Item(asked.parsetrees, n - 1)
                         y == At(r.tree, pos)
                     IN /\ r.status = "tree" /\ r.error = ""
                        /\ y.label = x.label
                        /\ y.kids = Carried(cand, Range(Leaves(cand)), indices).kids
                        /\ Put(r.tree, pos, x) = dt)
  /\ [][(result'.op = "replacesubtree" /\ result'.status = "tree") =>
         LET dt == Drawn
         IN \E nodeid \in 0..(Len(Positions(dt)) - 1), n \in {0, 1, 2} :
              \E asked \in Asked(dt, nodeid) :
                /\ ~asked.raised /\ InRange(asked.parsetrees, n - 1)
                /\ treestr' = Writediscbrackettree(
                                Replacesubtree(dt, nodeid, n, asked).tree, senttok)]_vars

\* The children of a node over tokens that are not adjacent were replaced.
C28_Witness ==
  /\ result.op = "replacesubtree"
  /\ result.status = "tree"
  /\ \E i \in 1..Len(Subtrees(Validated)) :
       LET x == Subtrees(Validated)[i]
       IN /\ Range(Leaves(x)) = {0, 2}
          /\ \E k \in 1..Len(x.kids) : x.kids[k].label = <<"V">>


\* C29: no engine runs two calls at a time, and the calls of an engine are
\* started in the order in which they were submitted.
C29_OneJobAtATime ==
  \A u \in Users :
    /\ Cardinality(engines[u].running) <= 1
    /\ engines[u].started = [k \in 1..Len(engines[u].started) |-> k]

\* The engines of two annotators run a call each, a later call of one of them
\* waiting.
C29_Witness ==
  /\ \A u \in Users : engines[u].running # {}
  /\ \E u \in Users : engines[u].queue # <<>> /\ Len(engines[u].started) > 1

\* C30: accept stores the tree of the form, and submits the augment call,
\* only when validate passes the tree for the sentence; otherwise nothing is
\* stored.
C30_AcceptStoresValidTrees ==
  stored.status # "none" =>
    IF Validate(treestr, senttok) = "none"
    THEN stored.status = "stored" /\ stored.augment
    ELSE stored.status # "stored" /\ ~stored.augment


\* C31: when the reattach view refuses an edit (deleting, splicing or
\* re-attaching) the tree it returns with the error is the validated tree of
\* the request and the count of edits stays; an edit made adds one to the
\* count, and nothing else changes it.
C31_RejectedEditChangesNothing ==
  [][nedits' = nedits + 1 =>
       LET given == Validated
       IN IF result'.status = "tree" /\ result'.error # ""
          THEN /\ ~Discbrackettree(treestr').raised
               /\ Discbrackettree(treestr').tree = given
               /\ Discbrackettree(treestr').sent = senttok
               /\ actions' = actions
          ELSE IF result'.status = "tree"
          THEN actions' = actions + 1
          ELSE actions' = actions /\ treestr' = treestr]_vars

\* An edit was refused and is not counted.
C31_Witness ==
  /\ result.op \in {"deletenode", "splice", "reattach"}
  /\ result.status = "tree"
  /\ result.error # ""
  /\ nedits = 1
  /\ actions = 0


\* C32: of a list of candidates that is not empty applythreshold returns a
\* list that is not empty and has a candidate of the highest probability.
C32_PruningKeepsTheBest ==
  (kept.called /\ job.parsetrees # <<>>) =>
    /\ kept.parsetrees # <<>>
    /\ \E k \in 1..Len(kept.parsetrees) :
         \A j \in 1..Len(job.parsetrees) :
           kept.parsetrees[k].prob >= job.parsetrees[j].prob


\* C33: a parse or accept request that was let through by loginrequired
\* does not end on a missing entry of WORKERS for its annotator, nor on a
\* submit to a pool that was shut down.
C33_HandleFoundOnSubmit ==
  \A t \in Threads :
    (th[t].op \in {"parse", "accept"} /\ th[t].pc = "idle") =>
      th[t].resp \notin {"KeyError", "RuntimeError"}


====
